---- MODULE Spec2Model ----
(***************************************************************************)
(* Model of the clinote note-structuring pipeline: Normalizer              *)
(* (parser/normalize.rs), Bundle Splitter (parser/bundle.rs), Heading      *)
(* Detector (parser/headings.rs), Sectionizer (parser/sectionize.rs), the  *)
(* note builder (parser/mod.rs), the Validator (validate.rs) and the batch *)
(* runner (cli.rs, reports.rs).                                            *)
(*                                                                         *)
(* A text is a sequence of characters; a character is a one-character      *)
(* string.  The bullet glyph U+2022 is written as the token "BULLET", the  *)
(* degree sign U+00B0 as the token "DEGREE".                               *)
(***************************************************************************)
EXTENDS Naturals, Integers, Sequences, FiniteSets, TLC

VARIABLES
    input,          \* Normalizer run: the text handed to normalize_text
    normalized,     \* Normalizer run: normalize_text(input)
    renormalized,   \* Normalizer run: normalize_text(normalized)
    npc,            \* Normalizer run: "start", "once", "twice" ("idle" elsewhere)
    text,           \* parse_notes: the raw text
    config,         \* parse_notes: the Config
    format,         \* parse_notes: the NoteFormat
    options,        \* parse_notes: the ParseOptions
    pc,             \* parse_notes: "start", "notes", "done" ("idle" elsewhere)
    note_texts,     \* parse_notes: the note texts split_bundle returned
    bundle_warnings, \* parse_notes: the warnings split_bundle returned
    extracted,      \* parse_notes: per note parsed so far, the lines, the scanned
                    \* headings and what extract_candidates returned
    structured,     \* parse_notes: the StructuredNotes built so far
    hline,          \* Heading run: the line, or raw heading, under test
    hkey,           \* Heading run: normalize_heading_key(hline)
    hmapped,        \* Heading run: canonicalize_heading(hline, config)
    hremapped,      \* Heading run: canonicalize_heading of the name in hmapped
    hdetected,      \* Heading run: detect_heading(hline, config)
    hpc,            \* Heading run: "start", "key", "mapped", "remapped", "done"
    vnote,          \* Validator run: the StructuredNote
    vtemplate,      \* Validator run: the Template
    vstrict,        \* Validator run: the strict flag
    vissues,        \* Validator run: what validate_note returned
    vpc,            \* Validator run: "start", "done" ("idle" elsewhere)
    globbed,        \* run_batch: the entries the glob iterator yields, in order
    bargs,          \* run_batch: the BatchArgs (format and bundle)
    bidx,           \* run_batch: the number of entries the loop has taken
    breport,        \* run_batch: the BatchReport
    boutputs,       \* run_batch: the files under out_dir, by path
    bpc             \* run_batch: "start", "loop", "done" ("idle" elsewhere)

normVars == <<input, normalized, renormalized, npc>>
pipeVars == <<text, config, format, options, pc, note_texts, bundle_warnings,
              extracted, structured>>
headVars == <<hline, hkey, hmapped, hremapped, hdetected, hpc>>
valVars == <<vnote, vtemplate, vstrict, vissues, vpc>>
batchVars == <<globbed, bargs, bidx, breport, boutputs, bpc>>
vars == <<normVars, pipeVars, headVars, valVars, batchVars>>

-----------------------------------------------------------------------------
(* Bounds *)

MaxTextLen == 4
MaxLines == 3
MaxBundleLines == 4
MaxKeyLen == 3
MaxSections == 2

-----------------------------------------------------------------------------
(* Characters *)

LF == "\n"
CR == "\r"
TAB == "\t"
SP == " "
BULLET == "BULLET"
\* the degree sign U+00B0, one character of two bytes in UTF-8
DEGREE == "DEGREE"

\* char::is_whitespace restricted to the characters the model uses
Whitespace == {SP, TAB, LF, CR}

is_whitespace(ch) == ch \in Whitespace

\* char::len_utf8 restricted to the characters the model uses
len_utf8(ch) == IF ch = BULLET THEN 3 ELSE IF ch = DEGREE THEN 2 ELSE 1

RECURSIVE ByteLen(_)
\* str::len: the length in bytes
ByteLen(s) == IF s = <<>> THEN 0 ELSE len_utf8(Head(s)) + ByteLen(Tail(s))

-----------------------------------------------------------------------------
(* String primitives of the Rust standard library *)

RECURSIVE Join(_, _)
\* [String]::join(sep)
Join(parts, sep) ==
    IF Len(parts) = 0 THEN <<>>
    ELSE IF Len(parts) = 1 THEN parts[1]
    ELSE parts[1] \o sep \o Join(Tail(parts), sep)

RECURSIVE TrimEnd(_)
\* str::trim_end
TrimEnd(s) ==
    IF Len(s) = 0 THEN s
    ELSE IF is_whitespace(s[Len(s)]) THEN TrimEnd(SubSeq(s, 1, Len(s) - 1))
    ELSE s

RECURSIVE TrimStart(_)
\* str::trim_start
TrimStart(s) ==
    IF Len(s) = 0 THEN s
    ELSE IF is_whitespace(s[1]) THEN TrimStart(Tail(s))
    ELSE s

\* str::trim
Trim(s) == TrimStart(TrimEnd(s))

\* str::replace(char, char)
ReplaceChar(s, from, to) ==
    [i \in 1..Len(s) |-> IF s[i] = from THEN to ELSE s[i]]

RECURSIVE ReplaceStr(_, _, _)
\* str::replace(&str, &str): non-overlapping matches, left to right
ReplaceStr(s, from, to) ==
    IF Len(s) < Len(from) THEN s
    ELSE IF SubSeq(s, 1, Len(from)) = from
         THEN to \o ReplaceStr(SubSeq(s, Len(from) + 1, Len(s)), from, to)
         ELSE <<s[1]>> \o ReplaceStr(Tail(s), from, to)

RECURSIVE SplitInclusive(_, _)
\* str::split_inclusive('\n'): pieces that keep their terminating line feed;
\* cur is the piece being accumulated
SplitInclusive(s, cur) ==
    IF Len(s) = 0 THEN (IF Len(cur) = 0 THEN <<>> ELSE <<cur>>)
    ELSE IF s[1] = LF THEN <<cur \o <<LF>>>> \o SplitInclusive(Tail(s), <<>>)
    ELSE SplitInclusive(Tail(s), cur \o <<s[1]>>)

\* the closure of str::lines: strip one "\n", then one "\r" in front of it
StripLineEnding(piece) ==
    IF Len(piece) > 0 /\ piece[Len(piece)] = LF
    THEN LET l == SubSeq(piece, 1, Len(piece) - 1)
         IN  IF Len(l) > 0 /\ l[Len(l)] = CR THEN SubSeq(l, 1, Len(l) - 1) ELSE l
    ELSE piece

\* str::lines
Lines(s) ==
    LET pieces == SplitInclusive(s, <<>>)
    IN  [i \in 1..Len(pieces) |-> StripLineEnding(pieces[i])]

-----------------------------------------------------------------------------
(* Normalizer: parser/normalize.rs *)

\* the body of the for loop of normalize_text
NormalizeLine(line) ==
    ReplaceStr(ReplaceChar(TrimEnd(line), BULLET, "-"), <<"*", SP>>, <<"-", SP>>)

normalize_text(s) ==
    LET txt == ReplaceChar(ReplaceChar(ReplaceStr(s, <<CR, LF>>, <<LF>>), CR, LF), TAB, SP)
        ls  == Lines(txt)
    IN  Join([i \in 1..Len(ls) |-> NormalizeLine(ls[i])], <<LF>>)

RECURSIVE TextsUpTo(_, _)
\* all texts over alphabet of length at most n
TextsUpTo(alphabet, n) ==
    IF n = 0 THEN {<<>>}
    ELSE LET shorter == TextsUpTo(alphabet, n - 1)
         IN  shorter \cup {Append(t, c) : t \in shorter, c \in alphabet}

-----------------------------------------------------------------------------
(* Character classes of the heading patterns *)

UpperSeq == <<"A", "B", "C", "D", "E", "F", "G", "H", "I", "J", "K", "L", "M",
              "N", "O", "P", "Q", "R", "S", "T", "U", "V", "W", "X", "Y", "Z">>

LowerSeq == <<"a", "b", "c", "d", "e", "f", "g", "h", "i", "j", "k", "l", "m",
              "n", "o", "p", "q", "r", "s", "t", "u", "v", "w", "x", "y", "z">>

Upper == {UpperSeq[i] : i \in 1..Len(UpperSeq)}
Lower == {LowerSeq[i] : i \in 1..Len(LowerSeq)}
Digit == {"0", "1", "2", "3", "4", "5", "6", "7", "8", "9"}

AsciiAlphanumeric == Upper \cup Lower \cup Digit

is_ascii_alphanumeric(ch) == ch \in AsciiAlphanumeric

\* the upper-case letter of each lower-case letter
UpperOf == [ch \in Lower |-> UpperSeq[CHOOSE i \in 1..Len(LowerSeq) : LowerSeq[i] = ch]]

to_ascii_uppercase(ch) == IF ch \in Lower THEN UpperOf[ch] ELSE ch

\* s[from..] (1-based), the rest of a text
Rest(s, from) == SubSeq(s, from, Len(s))

RECURSIVE TrimEndMatches(_, _)
\* str::trim_end_matches(char)
TrimEndMatches(s, ch) ==
    IF Len(s) > 0 /\ s[Len(s)] = ch THEN TrimEndMatches(SubSeq(s, 1, Len(s) - 1), ch) ELSE s

-----------------------------------------------------------------------------
(* util::normalize_heading_key *)

RECURSIVE KeyLoop(_, _, _)
\* the for loop of normalize_heading_key over cleaned.chars()
KeyLoop(cleaned, out, last_space) ==
    IF Len(cleaned) = 0 THEN out
    ELSE LET ch == cleaned[1]
         IN  IF is_ascii_alphanumeric(ch)
             THEN KeyLoop(Tail(cleaned), Append(out, to_ascii_uppercase(ch)), FALSE)
             ELSE IF is_whitespace(ch)
                  THEN IF ~last_space
                       THEN KeyLoop(Tail(cleaned), Append(out, SP), TRUE)
                       ELSE KeyLoop(Tail(cleaned), out, last_space)
                  ELSE KeyLoop(Tail(cleaned), out, last_space)

normalize_heading_key(s) ==
    LET cleaned == ReplaceChar(ReplaceChar(ReplaceChar(
                       TrimEndMatches(Trim(s), ":"), "-", SP), "/", SP), "&", SP)
    IN  Trim(KeyLoop(cleaned, <<>>, FALSE))

-----------------------------------------------------------------------------
(* Section names and the built-in alias table: models.rs, parser/headings.rs *)

\* SectionName::as_str: the canonical display string of each section name
Subjective == <<"S", "u", "b", "j", "e", "c", "t", "i", "v", "e">>
Objective == <<"O", "b", "j", "e", "c", "t", "i", "v", "e">>
Assessment == <<"A", "s", "s", "e", "s", "s", "m", "e", "n", "t">>
Plan == <<"P", "l", "a", "n">>
ChiefComplaint == <<"C", "h", "i", "e", "f", " ", "C", "o", "m", "p", "l", "a", "i", "n", "t">>
Hpi == <<"H", "P", "I">>
Pmh == <<"P", "M", "H">>
Medications == <<"M", "e", "d", "i", "c", "a", "t", "i", "o", "n", "s">>
Allergies == <<"A", "l", "l", "e", "r", "g", "i", "e", "s">>
Ros == <<"R", "O", "S">>
PhysicalExam == <<"P", "h", "y", "s", "i", "c", "a", "l", " ", "E", "x", "a", "m">>
AdmissionDx == <<"A", "d", "m", "i", "s", "s", "i", "o", "n", " ", "D", "x">>
DischargeDx == <<"D", "i", "s", "c", "h", "a", "r", "g", "e", " ", "D", "x">>
HospitalCourse == <<"H", "o", "s", "p", "i", "t", "a", "l", " ", "C", "o", "u", "r", "s", "e">>
FollowUp == <<"F", "o", "l", "l", "o", "w", "-", "u", "p">>
Disposition == <<"D", "i", "s", "p", "o", "s", "i", "t", "i", "o", "n">>
Instructions == <<"I", "n", "s", "t", "r", "u", "c", "t", "i", "o", "n", "s">>
Narrative == <<"N", "a", "r", "r", "a", "t", "i", "v", "e">>

\* HEADING_MAP: the built-in alias table, key -> canonical name
HEADING_MAP == <<
    <<<<"S", "U", "B", "J", "E", "C", "T", "I", "V", "E">>, Subjective>>,
    <<<<"O", "B", "J", "E", "C", "T", "I", "V", "E">>, Objective>>,
    <<<<"A", "S", "S", "E", "S", "S", "M", "E", "N", "T">>, Assessment>>,
    <<<<"D", "I", "A", "G", "N", "O", "S", "I", "S">>, Assessment>>,
    <<<<"D", "X">>, Assessment>>,
    <<<<"P", "L", "A", "N">>, Plan>>,
    <<<<"S">>, Subjective>>,
    <<<<"O">>, Objective>>,
    <<<<"A">>, Assessment>>,
    <<<<"P">>, Plan>>,
    <<<<"C", "H", "I", "E", "F", " ", "C", "O", "M", "P", "L", "A", "I", "N", "T">>, ChiefComplaint>>,
    <<<<"C", "C">>, ChiefComplaint>>,
    <<<<"H", "P", "I">>, Hpi>>,
    <<<<"H", "I", "S", "T", "O", "R", "Y", " ", "O", "F", " ", "P", "R", "E", "S", "E", "N", "T", " ", "I", "L", "L", "N", "E", "S", "S">>, Hpi>>,
    <<<<"P", "M", "H">>, Pmh>>,
    <<<<"P", "A", "S", "T", " ", "M", "E", "D", "I", "C", "A", "L", " ", "H", "I", "S", "T", "O", "R", "Y">>, Pmh>>,
    <<<<"H", "X">>, Pmh>>,
    <<<<"M", "E", "D", "S">>, Medications>>,
    <<<<"M", "E", "D", "I", "C", "A", "T", "I", "O", "N", "S">>, Medications>>,
    <<<<"A", "L", "L", "E", "R", "G", "I", "E", "S">>, Allergies>>,
    <<<<"A", "L", "L", "E", "R", "G", "Y">>, Allergies>>,
    <<<<"R", "O", "S">>, Ros>>,
    <<<<"R", "E", "V", "I", "E", "W", " ", "O", "F", " ", "S", "Y", "S", "T", "E", "M", "S">>, Ros>>,
    <<<<"P", "H", "Y", "S", "I", "C", "A", "L", " ", "E", "X", "A", "M">>, PhysicalExam>>,
    <<<<"P", "H", "Y", "S", "I", "C", "A", "L", " ", "E", "X", "A", "M", "I", "N", "A", "T", "I", "O", "N">>, PhysicalExam>>,
    <<<<"P", "E">>, PhysicalExam>>,
    <<<<"A", "D", "M", "I", "S", "S", "I", "O", "N", " ", "D", "X">>, AdmissionDx>>,
    <<<<"A", "D", "M", "I", "S", "S", "I", "O", "N", " ", "D", "I", "A", "G", "N", "O", "S", "I", "S">>, AdmissionDx>>,
    <<<<"A", "D", "M", "I", "T", " ", "D", "X">>, AdmissionDx>>,
    <<<<"D", "I", "S", "C", "H", "A", "R", "G", "E", " ", "D", "X">>, DischargeDx>>,
    <<<<"D", "I", "S", "C", "H", "A", "R", "G", "E", " ", "D", "I", "A", "G", "N", "O", "S", "I", "S">>, DischargeDx>>,
    <<<<"H", "O", "S", "P", "I", "T", "A", "L", " ", "C", "O", "U", "R", "S", "E">>, HospitalCourse>>,
    <<<<"C", "O", "U", "R", "S", "E">>, HospitalCourse>>,
    <<<<"F", "O", "L", "L", "O", "W", " ", "U", "P">>, FollowUp>>,
    <<<<"F", "O", "L", "L", "O", "W", "-", "U", "P">>, FollowUp>>,
    <<<<"F", "O", "L", "L", "O", "W", "U", "P">>, FollowUp>>,
    <<<<"D", "I", "S", "P", "O", "S", "I", "T", "I", "O", "N">>, Disposition>>,
    <<<<"D", "I", "S", "P", "O">>, Disposition>>,
    <<<<"I", "N", "S", "T", "R", "U", "C", "T", "I", "O", "N", "S">>, Instructions>>,
    <<<<"D", "I", "S", "C", "H", "A", "R", "G", "E", " ", "I", "N", "S", "T", "R", "U", "C", "T", "I", "O", "N", "S">>, Instructions>>
>>

\* Option<T>: None is the empty tuple, Some(v) the tuple <<v>>
None == <<>>
Some(v) == <<v>>
\* Option::unwrap
Unwrap(o) == o[1]

RECURSIVE MapGet(_, _, _)
\* first value whose key satisfies the test, scanning pairs from position i
MapGet(pairs, key, i) ==
    IF i > Len(pairs) THEN None
    ELSE IF pairs[i][1] = key THEN Some(pairs[i][2])
    ELSE MapGet(pairs, key, i + 1)

RECURSIVE FindAlias(_, _, _)
\* Config::resolve_heading_alias: heading_aliases.iter().find_map(..), the
\* sequence heading_aliases standing for the map in its iteration order
FindAlias(heading_aliases, raw_key, i) ==
    IF i > Len(heading_aliases) THEN None
    ELSE IF normalize_heading_key(heading_aliases[i][1]) = raw_key
         THEN Some(heading_aliases[i][2])
    ELSE FindAlias(heading_aliases, raw_key, i + 1)

resolve_heading_alias(cfg, raw) ==
    FindAlias(cfg.heading_aliases, normalize_heading_key(raw), 1)

\* canonicalize_heading that consults the built-in table first
canonicalize_heading_builtin_first(raw, cfg) ==
    LET mapped == MapGet(HEADING_MAP, normalize_heading_key(raw), 1)
    IN  IF mapped # None THEN mapped ELSE resolve_heading_alias(cfg, raw)

\* headings::canonicalize_heading
canonicalize_heading(raw, cfg) ==
    LET mapped == resolve_heading_alias(cfg, raw)
    IN  IF mapped # None THEN mapped
        ELSE MapGet(HEADING_MAP, normalize_heading_key(raw), 1)

-----------------------------------------------------------------------------
(* The heading patterns: parser/headings.rs, parser/sectionize.rs.          *)
(* A pattern applied to a text without line feeds yields None or Some of    *)
(* its captures.                                                            *)

AllIn(s, set) == \A i \in 1..Len(s) : s[i] \in set

\* position of the first ch in s, 0 if none
IndexOf(s, ch) ==
    IF \E i \in 1..Len(s) : s[i] = ch
    THEN CHOOSE i \in 1..Len(s) : s[i] = ch /\ \A j \in 1..(i - 1) : s[j] # ch
    ELSE 0

\* [A-Z0-9 /&-]
AllCapsClass == Upper \cup Digit \cup {SP, "/", "&", "-"}
\* [A-Za-z0-9 /&.-]
HeadingClass == Upper \cup Lower \cup Digit \cup {SP, "/", "&", ".", "-"}
\* [A-Za-z /&.-]
FallbackClass == Upper \cup Lower \cup {SP, "/", "&", ".", "-"}

AllCapsMaxRepeat == 40
HeadingMaxLen == 40
ColonMinLen == 2
InlineMinLen == 1
FallbackMinLen == 2

\* ALL_CAPS_RE: ^[A-Z][A-Z0-9 /&-]{1,40}$ ; capture 0 is the whole text
ALL_CAPS_RE(s) ==
    IF /\ Len(s) >= 2
       /\ Len(s) <= 1 + AllCapsMaxRepeat
       /\ s[1] \in Upper
       /\ AllIn(Tail(s), AllCapsClass)
    THEN Some(s)
    ELSE None

\* COLON_RE with the first colon of s at position c (0: no colon)
ColonAt(s, c) ==
    IF /\ c > 0
       /\ c - 1 >= ColonMinLen
       /\ c - 1 <= HeadingMaxLen
       /\ AllIn(SubSeq(s, 1, c - 1), HeadingClass)
       /\ AllIn(Rest(s, c + 1), Whitespace)
    THEN Some([h |-> SubSeq(s, 1, c - 1)])
    ELSE None

\* COLON_RE: ^(?P<h>[A-Za-z0-9 /&.-]{2,40}):\s*$ ; h cannot hold a colon, so
\* it ends at the first one
COLON_RE(s) == ColonAt(s, IndexOf(s, ":"))

\* \s*(?P<rest>.+)$ applied to r: the greedy \s* gives back one character
\* when nothing else is left for rest
RestCapture(r) ==
    IF Len(r) = 0 THEN None
    ELSE IF Len(TrimStart(r)) = 0 THEN Some(<<r[Len(r)]>>)
    ELSE Some(TrimStart(r))

\* INLINE_RE with the first colon of s at position c (0: no colon)
InlineAt(s, c) ==
    IF /\ c > 0
       /\ c - 1 >= InlineMinLen
       /\ c - 1 <= HeadingMaxLen
       /\ AllIn(SubSeq(s, 1, c - 1), HeadingClass)
       /\ RestCapture(Rest(s, c + 1)) # None
    THEN Some([h |-> SubSeq(s, 1, c - 1), rest |-> Unwrap(RestCapture(Rest(s, c + 1)))])
    ELSE None

\* INLINE_RE: ^(?P<h>[A-Za-z0-9 /&.-]{1,40}):\s*(?P<rest>.+)$ ; h cannot hold
\* a colon, so it ends at the first one
INLINE_RE(s) == InlineAt(s, IndexOf(s, ":"))

\* \s*[:\-]\s*(?P<rest>.+)$ applied to the text after h
FallbackTail(t) ==
    LET u == TrimStart(t)
    IN  IF Len(u) >= 1 /\ u[1] \in {":", "-"} THEN RestCapture(Tail(u)) ELSE None

\* the lengths n of h for which FALLBACK_RE matches
FallbackLens(s) ==
    {n \in FallbackMinLen..HeadingMaxLen :
        /\ n <= Len(s)
        /\ AllIn(SubSeq(s, 1, n), FallbackClass)
        /\ FallbackTail(Rest(s, n + 1)) # None}

\* the match of FALLBACK_RE whose h has the greatest of the lengths lens
LongestFallback(s, lens) ==
    IF lens = {} THEN None
    ELSE LET n == CHOOSE m \in lens : \A k \in lens : k <= m
         IN  Some([h |-> SubSeq(s, 1, n), rest |-> Unwrap(FallbackTail(Rest(s, n + 1)))])

\* FALLBACK_RE: (?i)^(?P<h>[A-Za-z /&.-]{2,40})\s*[:\-]\s*(?P<rest>.+)$ ; the
\* greedy h is the longest that lets the remainder match
FALLBACK_RE(s) == LongestFallback(s, FallbackLens(s))

\* DATE_RE: ^\s*(\d{4}-\d{2}-\d{2}|\d{2}/\d{2}/\d{4}) ; is_match
DATE_RE(s) ==
    LET u == TrimStart(s)
        d(i) == u[i] \in Digit
    IN  /\ Len(u) >= 10
        /\ \/ /\ d(1) /\ d(2) /\ d(3) /\ d(4) /\ u[5] = "-"
              /\ d(6) /\ d(7) /\ u[8] = "-" /\ d(9) /\ d(10)
           \/ /\ d(1) /\ d(2) /\ u[3] = "/" /\ d(4) /\ d(5) /\ u[6] = "/"
              /\ d(7) /\ d(8) /\ d(9) /\ d(10)

-----------------------------------------------------------------------------
(* Heading Detector: parser/headings.rs *)

\* Canonical that takes every captured raw heading as it stands
CanonicalUnresolved(raw, cfg) == raw

\* canonicalize_heading of a captured raw heading, None if nothing was captured
Canonical(raw, cfg) ==
    IF raw = None THEN None ELSE canonicalize_heading(Unwrap(raw), cfg)

\* the capture h of a match, None if there is no match
CaptureH(caps) == IF caps = None THEN None ELSE Some(Unwrap(caps).h)

\* the cascade of detect_heading: by_caps, by_colon and by_inline are the
\* canonical names the three patterns resolved to, inline the INLINE_RE match
FirstResolved(by_caps, by_colon, by_inline, inline) ==
    IF by_caps # None THEN Some(<<Unwrap(by_caps), None>>)
    ELSE IF by_colon # None THEN Some(<<Unwrap(by_colon), None>>)
    ELSE IF by_inline # None
         THEN Some(<<Unwrap(by_inline), Some(Trim(Unwrap(inline).rest))>>)
    ELSE None

\* detect_heading after let trimmed = line.trim()
DetectTrimmed(trimmed, cfg) ==
    IF Len(trimmed) = 0 THEN None
    ELSE FirstResolved(Canonical(ALL_CAPS_RE(trimmed), cfg),
                       Canonical(CaptureH(COLON_RE(trimmed)), cfg),
                       Canonical(CaptureH(INLINE_RE(trimmed)), cfg),
                       INLINE_RE(trimmed))

\* Some(<<canonical name, inline content>>) or None
detect_heading(line, cfg) == DetectTrimmed(Trim(line), cfg)

\* HeadingLine
HeadingLine(line_num, raw, heading, inline_content) ==
    [line_num |-> line_num, raw |-> raw, heading |-> heading,
     inline_content |-> inline_content]

RECURSIVE Ascending(_)
\* the numbers of a set in increasing order: the order in which a loop over
\* lines.iter().enumerate() meets them
Ascending(S) ==
    IF S = {} THEN <<>>
    ELSE LET m == CHOOSE x \in S : \A y \in S : x <= y
         IN  <<m>> \o Ascending(S \ {m})

\* the HeadingLines of the lines whose detection is not None, in line order;
\* detected[i] is Some(<<canonical name, inline content>>) or None
HeadingLines(lines, detected) ==
    LET at == Ascending({i \in 1..Len(lines) : detected[i] # None})
    IN  [k \in 1..Len(at) |->
            HeadingLine(at[k], lines[at[k]], Unwrap(detected[at[k]])[1],
                        Unwrap(detected[at[k]])[2])]

scan_headings(lines, cfg) ==
    HeadingLines(lines, [i \in 1..Len(lines) |-> detect_heading(lines[i], cfg)])

\* the loop body of fallback_headings on one line: the FALLBACK_RE match caps
\* counts if its h canonicalizes
FallbackDetect(caps, cfg) ==
    IF Canonical(CaptureH(caps), cfg) = None THEN None
    ELSE Some(<<Unwrap(Canonical(CaptureH(caps), cfg)), Some(Trim(Unwrap(caps).rest))>>)

\* sectionize::fallback_headings
fallback_headings(lines, cfg) ==
    HeadingLines(lines, [i \in 1..Len(lines) |->
                            FallbackDetect(FALLBACK_RE(Trim(lines[i])), cfg)])

-----------------------------------------------------------------------------
(* Warnings: parser/warnings.rs, models.rs *)

\* warnings::warning -> ParseWarning; message is the text of the message as
\* a tuple of its parts
warning(code, message, line_start, line_end, severity) ==
    [code |-> code, message |-> message, line_start |-> line_start,
     line_end |-> line_end, severity |-> severity]

\* usize::max
Max(a, b) == IF a >= b THEN a ELSE b

-----------------------------------------------------------------------------
(* Bundle Splitter: parser/bundle.rs *)

\* Flush without the trim()
FlushUntrimmed(current) == Join(current, <<LF>>)

\* current.join("\n").trim().to_string()
Flush(current) == Trim(Join(current, <<LF>>))

\* delimiters.iter().any(|d| d.trim() == trimmed)
IsDelimiter(line, delimiters) ==
    \E i \in 1..Len(delimiters) : Trim(delimiters[i]) = Trim(line)

RECURSIVE DelimiterLoop(_, _, _, _)
\* the for loop of split_on_delimiters and the flush after it
DelimiterLoop(ls, delimiters, notes, current) ==
    IF Len(ls) = 0
    THEN (IF Len(current) > 0 THEN Append(notes, Flush(current)) ELSE notes)
    ELSE IF IsDelimiter(ls[1], delimiters)
         THEN IF Len(current) > 0
              THEN DelimiterLoop(Tail(ls), delimiters, Append(notes, Flush(current)), <<>>)
              ELSE DelimiterLoop(Tail(ls), delimiters, notes, current)
         ELSE DelimiterLoop(Tail(ls), delimiters, notes, Append(current, ls[1]))

split_on_delimiters(txt, delimiters) ==
    LET found == DelimiterLoop(Lines(txt), delimiters, <<>>, <<>>)
    IN  IF Len(found) = 0 THEN <<txt>> ELSE found

\* split_on_dates that is content with a single date line
split_on_dates_single(txt) ==
    LET ls == Lines(txt)
        at == Ascending({i \in 1..Len(ls) : DATE_RE(ls[i])})
    IN  IF Len(at) = 0 THEN <<txt>>
        ELSE (IF at[1] > 1 THEN <<Trim(Join(SubSeq(ls, 1, at[1] - 1), <<LF>>))>> ELSE <<>>)
             \o [k \in 1..Len(at) |->
                    Trim(Join(SubSeq(ls, at[k],
                                     IF k < Len(at) THEN at[k + 1] - 1 ELSE Len(ls)),
                              <<LF>>))]

RECURSIVE DateLoop(_, _, _, _)
\* the for loop of split_on_dates and the flush after it: <<notes, found>>
DateLoop(ls, notes, current, found) ==
    IF Len(ls) = 0
    THEN <<IF Len(current) > 0 THEN Append(notes, Flush(current)) ELSE notes, found>>
    ELSE IF DATE_RE(ls[1])
         THEN IF Len(current) > 0
              THEN DateLoop(Tail(ls), Append(notes, Flush(current)), <<ls[1]>>, found + 1)
              ELSE DateLoop(Tail(ls), notes, <<ls[1]>>, found + 1)
         ELSE DateLoop(Tail(ls), notes, Append(current, ls[1]), found)

split_on_dates(txt) ==
    LET r == DateLoop(Lines(txt), <<>>, <<>>, 0)
    IN  IF r[2] <= 1 THEN <<txt>> ELSE r[1]

\* SplitOrWhole that warns in mode auto too
SplitOrWholeWarning(txt, strict, split) ==
    IF Len(split) <= 1
    THEN <<<<txt>>,
           <<warning("bundle_not_split",
                     <<"Bundle mode requested but no clear delimiters found">>,
                     1, Max(Len(Lines(txt)), 1), "Warning")>>>>
    ELSE <<split, <<>>>>

\* the second half of split_bundle_internal: split is what the two
\* strategies found
SplitOrWhole(txt, strict, split) ==
    IF Len(split) <= 1
    THEN <<<<txt>>,
           IF strict
           THEN <<warning("bundle_not_split",
                          <<"Bundle mode requested but no clear delimiters found">>,
                          1, Max(Len(Lines(txt)), 1), "Warning")>>
           ELSE <<>>>>
    ELSE <<split, <<>>>>

\* if notes.len() <= 1 { notes = split_on_dates(text) }
OrByDates(txt, by_delimiter) ==
    IF Len(by_delimiter) <= 1 THEN split_on_dates(txt) ELSE by_delimiter

\* <<notes, warnings>>
split_bundle_internal(txt, cfg, strict) ==
    SplitOrWhole(txt, strict, OrByDates(txt, split_on_delimiters(txt, cfg.bundle.delimiters)))

\* split_bundle that splits in mode off too
split_bundle_any_mode(txt, mode, cfg) == split_bundle_internal(txt, cfg, mode = "On")

\* <<notes, warnings>>
split_bundle(txt, mode, cfg) ==
    CASE mode = "Off"  -> <<<<txt>>, <<>>>>
      [] mode = "On"   -> split_bundle_internal(txt, cfg, TRUE)
      [] mode = "Auto" -> split_bundle_internal(txt, cfg, FALSE)

-----------------------------------------------------------------------------
(* Sectionizer: parser/sectionize.rs *)

\* confidence tiers, in hundredths
ConfidenceDirect == 85
ConfidenceFallback == 60
ConfidenceCatchAll == 40

SectionCandidate(name, raw_heading, content, start_line, end_line, confidence) ==
    [name |-> name, raw_heading |-> raw_heading, content |-> content,
     start_line |-> start_line, end_line |-> end_line, confidence |-> confidence]

\* Config::section_order(format)
section_order(cfg, fmt) == cfg.formats[fmt]

RECURSIVE InsertByLineNum(_, _)
\* place h after every heading of sorted whose line_num is not greater
InsertByLineNum(sorted, h) ==
    IF Len(sorted) = 0 THEN <<h>>
    ELSE IF sorted[Len(sorted)].line_num <= h.line_num THEN Append(sorted, h)
    ELSE Append(InsertByLineNum(SubSeq(sorted, 1, Len(sorted) - 1), h), sorted[Len(sorted)])

RECURSIVE SortByLineNum(_)
\* headings.sort_by_key(|h| h.line_num): a stable sort
SortByLineNum(hs) ==
    IF Len(hs) = 0 THEN <<>>
    ELSE InsertByLineNum(SortByLineNum(SubSeq(hs, 1, Len(hs) - 1)), hs[Len(hs)])

\* <<name, mapped>>
map_heading(heading, order) ==
    LET heading_key == normalize_heading_key(heading)
        hit == {i \in 1..Len(order) : normalize_heading_key(order[i]) = heading_key}
    IN  IF hit # {}
        THEN <<order[CHOOSE i \in hit : \A j \in hit : i <= j], TRUE>>
        ELSE <<Narrative, FALSE>>

\* CatchAll that forgets to return its candidate
CatchAllNoCandidate(lines) ==
    [candidates |-> <<>>,
     warnings |->
        <<warning("no_headings", <<"No headings detected; content grouped as Narrative">>,
                  1, Max(Len(lines), 1), "Warning")>>]

\* CatchAll without the trim() of the joined lines
CatchAllUntrimmed(lines) ==
    [candidates |->
        <<SectionCandidate(Narrative, Narrative, Join(lines, <<LF>>),
                           1, Max(Len(lines), 1), ConfidenceCatchAll)>>,
     warnings |->
        <<warning("no_headings", <<"No headings detected; content grouped as Narrative">>,
                  1, Max(Len(lines), 1), "Warning")>>]

\* the no-headings branch of extract_sections
CatchAll(lines) ==
    [candidates |->
        <<SectionCandidate(Narrative, Narrative, Trim(Join(lines, <<LF>>)),
                           1, Max(Len(lines), 1), ConfidenceCatchAll)>>,
     warnings |->
        <<warning("no_headings", <<"No headings detected; content grouped as Narrative">>,
                  1, Max(Len(lines), 1), "Warning")>>]

\* end_line of the idx-th heading (1-based) of the sorted headings
EndLine(headings, idx, lines) ==
    IF idx < Len(headings)
    THEN Max(headings[idx + 1].line_num, 1) - 1
    ELSE Max(Len(lines), 1)

\* ContentLines that runs through the last line of the document for every
\* heading
ContentLinesToEnd(headings, idx, lines) ==
    (IF headings[idx].inline_content # None THEN <<Unwrap(headings[idx].inline_content)>>
     ELSE <<>>)
    \o SubSeq(lines, headings[idx].line_num + 1, Len(lines))

\* content_lines of the idx-th heading
ContentLines(headings, idx, lines) ==
    LET heading == headings[idx]
        at == Ascending({i \in (heading.line_num + 1)..EndLine(headings, idx, lines) :
                            i <= Len(lines)})
    IN  (IF heading.inline_content # None THEN <<Unwrap(heading.inline_content)>> ELSE <<>>)
        \o [k \in 1..Len(at) |-> lines[at[k]]]

\* CandidateOf that ignores used_fallback: every heading at the direct tier
CandidateOfDirectOnly(headings, idx, lines, order, used_fallback) ==
    SectionCandidate(map_heading(headings[idx].heading, order)[1],
                     headings[idx].heading,
                     Trim(Join(ContentLines(headings, idx, lines), <<LF>>)),
                     headings[idx].line_num,
                     EndLine(headings, idx, lines),
                     ConfidenceDirect)

\* the candidate built by one iteration of the loop over the headings
CandidateOf(headings, idx, lines, order, used_fallback) ==
    SectionCandidate(map_heading(headings[idx].heading, order)[1],
                     headings[idx].heading,
                     Trim(Join(ContentLines(headings, idx, lines), <<LF>>)),
                     headings[idx].line_num,
                     EndLine(headings, idx, lines),
                     IF used_fallback THEN ConfidenceFallback ELSE ConfidenceDirect)

\* UnmappedWarnings with the test inverted: if mapped instead of if !mapped
UnmappedWarningsInverted(headings, lines, order) ==
    LET at == Ascending({i \in 1..Len(headings) : map_heading(headings[i].heading, order)[2]})
    IN  [k \in 1..Len(at) |->
            warning("unmapped_heading",
                    <<"Heading '", headings[at[k]].heading, "' not in target format">>,
                    headings[at[k]].line_num, EndLine(headings, at[k], lines), "Info")]

\* the warnings pushed by the loop over the headings
UnmappedWarnings(headings, lines, order) ==
    LET at == Ascending({i \in 1..Len(headings) : ~map_heading(headings[i].heading, order)[2]})
    IN  [k \in 1..Len(at) |->
            warning("unmapped_heading",
                    <<"Heading '", headings[at[k]].heading, "' not in target format">>,
                    headings[at[k]].line_num, EndLine(headings, at[k], lines), "Info")]

\* the candidates whose name has the key of name, in their order
WithKey(candidates, name) ==
    LET at == Ascending({i \in 1..Len(candidates) :
                            normalize_heading_key(candidates[i].name)
                                = normalize_heading_key(name)})
    IN  [k \in 1..Len(at) |-> candidates[at[k]]]

RECURSIVE OrderedByTemplate(_, _)
\* the first ordering loop: for each name of the section order, its candidates
OrderedByTemplate(candidates, order) ==
    IF Len(order) = 0 THEN <<>>
    ELSE WithKey(candidates, order[1]) \o OrderedByTemplate(candidates, Tail(order))

\* the two ordering loops of extract_sections
FinalOrder(candidates, order) ==
    OrderedByTemplate(candidates, order) \o WithKey(candidates, Narrative)

\* extract_sections from headings.sort_by_key on: headings are the sorted
\* headings, order the section order of the format
SectionsOf(lines, headings, order, used_fallback) ==
    [candidates |->
        FinalOrder([idx \in 1..Len(headings) |->
                       CandidateOf(headings, idx, lines, order, used_fallback)], order),
     warnings |->
        (IF used_fallback
         THEN <<warning("fallback_heuristics",
                        <<"Fallback heuristics applied to find headings">>,
                        1, Max(Len(lines), 1), "Info")>>
         ELSE <<>>)
        \o UnmappedWarnings(headings, lines, order)]

\* SectionsWith that never sets used_fallback
SectionsWithoutFlag(lines, headings_found, fallback, order) ==
    IF Len(headings_found) > 0
    THEN SectionsOf(lines, SortByLineNum(headings_found), order, FALSE)
    ELSE IF Len(fallback) > 0
         THEN SectionsOf(lines, SortByLineNum(fallback), order, FALSE)
    ELSE CatchAll(lines)

\* extract_sections, fallback being what fallback_headings found when it ran
\* and empty when it did not run
SectionsWith(lines, headings_found, fallback, order) ==
    IF Len(headings_found) > 0
    THEN SectionsOf(lines, SortByLineNum(headings_found), order, FALSE)
    ELSE IF Len(fallback) > 0
         THEN SectionsOf(lines, SortByLineNum(fallback), order, TRUE)
    ELSE CatchAll(lines)

\* extract_sections that runs the fallback whenever heuristics are on and
\* prefers what it finds to the scanned headings
extract_sections_fallback_first(lines, headings_found, fmt, cfg, apply_heuristics) ==
    SectionsWith(lines,
                 IF apply_heuristics /\ Len(fallback_headings(lines, cfg)) > 0
                 THEN <<>> ELSE headings_found,
                 IF apply_heuristics THEN fallback_headings(lines, cfg) ELSE <<>>,
                 section_order(cfg, fmt))

\* [candidates, warnings]
extract_sections(lines, headings_found, fmt, cfg, apply_heuristics) ==
    SectionsWith(lines, headings_found,
                 IF Len(headings_found) = 0 /\ apply_heuristics
                 THEN fallback_headings(lines, cfg) ELSE <<>>,
                 section_order(cfg, fmt))

-----------------------------------------------------------------------------
(* Note construction: parser/mod.rs *)

\* what extract_sections returned, [candidates, warnings], and for the record
\* the lines and the scanned headings handed to it
Extracted(r, lines, headings) ==
    [candidates |-> r.candidates, warnings |-> r.warnings,
     lines |-> lines, headings_found |-> headings]

\* extract_candidates after let lines = normalized.lines().collect()
CandidatesOfLines(lines, headings, fmt, cfg, opts) ==
    Extracted(extract_sections(lines, headings, fmt, cfg, opts.apply_heuristics),
              lines, headings)

ScanAndExtract(lines, fmt, cfg, opts) ==
    CandidatesOfLines(lines, scan_headings(lines, cfg), fmt, cfg, opts)

extract_candidates(txt, fmt, cfg, opts) ==
    ScanAndExtract(Lines(normalize_text(txt)), fmt, cfg, opts)

Section(name, content, confidence) ==
    [name |-> name, content |-> content, confidence |-> confidence]

\* the warnings build_note pushes, in candidate order
EmptySectionWarnings(candidates) ==
    LET at == Ascending({i \in 1..Len(candidates) : Len(Trim(candidates[i].content)) = 0})
    IN  [k \in 1..Len(at) |->
            warning("empty_section",
                    <<"Section ", candidates[at[k]].name, " has no content">>,
                    candidates[at[k]].start_line, candidates[at[k]].end_line, "Info")]

\* build_note that leaves out the candidates whose trimmed content is empty
build_note_dropping_empty(candidates, fmt, source_file, note_index, warnings) ==
    [format |-> fmt,
     source_file |-> source_file,
     note_index |-> note_index,
     sections |-> [i \in 1..Len(SelectSeq(candidates, LAMBDA c : Len(Trim(c.content)) > 0)) |->
                      Section(SelectSeq(candidates, LAMBDA c : Len(Trim(c.content)) > 0)[i].name,
                              Trim(SelectSeq(candidates,
                                             LAMBDA c : Len(Trim(c.content)) > 0)[i].content),
                              SelectSeq(candidates,
                                        LAMBDA c : Len(Trim(c.content)) > 0)[i].confidence)],
     warnings |-> warnings \o EmptySectionWarnings(candidates)]

\* StructuredNote without id and metadata (timestamps and the tool version)
build_note(candidates, fmt, source_file, note_index, warnings) ==
    [format |-> fmt,
     source_file |-> source_file,
     note_index |-> note_index,
     sections |-> [i \in 1..Len(candidates) |->
                      Section(candidates[i].name, Trim(candidates[i].content),
                              candidates[i].confidence)],
     warnings |-> warnings \o EmptySectionWarnings(candidates)]

-----------------------------------------------------------------------------
(* Validator: validate.rs *)

\* enum Template
Template == {"Soap", "Hp", "Discharge"}

\* enum Severity
Severity == {"Info", "Warn", "Error"}

MIN_SECTION_LEN == 20

\* ValidationIssue
ValidationIssue(code, message, severity, section, span) ==
    [code |-> code, message |-> message, severity |-> severity, section |-> section,
     span |-> span]

\* validate::required_groups
required_groups(template) ==
    CASE template = "Soap" ->
      << <<<<"S", "u", "b", "j", "e", "c", "t", "i", "v", "e">>,
              <<"S">>>>,
            <<<<"O", "b", "j", "e", "c", "t", "i", "v", "e">>,
              <<"O">>>>,
            <<<<"A", "s", "s", "e", "s", "s", "m", "e", "n", "t">>,
              <<"A">>,
              <<"D", "i", "a", "g", "n", "o", "s", "i", "s">>,
              <<"D", "x">>>>,
            <<<<"P", "l", "a", "n">>,
              <<"P">>>> >>
      [] template = "Hp" ->
      << <<<<"H", "P", "I">>,
              <<"H", "i", "s", "t", "o", "r", "y", " ", "o", "f", " ", "P", "r", "e", "s", "e", "n", "t", " ", "I", "l", "l", "n", "e", "s", "s">>>>,
            <<<<"P", "M", "H">>,
              <<"P", "a", "s", "t", " ", "M", "e", "d", "i", "c", "a", "l", " ", "H", "i", "s", "t", "o", "r", "y">>,
              <<"H", "x">>>>,
            <<<<"M", "e", "d", "i", "c", "a", "t", "i", "o", "n", "s">>,
              <<"M", "e", "d", "s">>>>,
            <<<<"A", "l", "l", "e", "r", "g", "i", "e", "s">>,
              <<"A", "l", "l", "e", "r", "g", "y">>>>,
            <<<<"P", "h", "y", "s", "i", "c", "a", "l", " ", "E", "x", "a", "m">>,
              <<"E", "x", "a", "m">>,
              <<"P", "E">>>>,
            <<<<"A", "s", "s", "e", "s", "s", "m", "e", "n", "t">>,
              <<"D", "x">>,
              <<"D", "i", "a", "g", "n", "o", "s", "i", "s">>>>,
            <<<<"P", "l", "a", "n">>,
              <<"P">>>> >>
      [] template = "Discharge" ->
      << <<<<"A", "d", "m", "i", "s", "s", "i", "o", "n", " ", "D", "x">>,
              <<"D", "i", "s", "c", "h", "a", "r", "g", "e", " ", "D", "x">>,
              <<"D", "i", "a", "g", "n", "o", "s", "e", "s">>,
              <<"D", "i", "a", "g", "n", "o", "s", "i", "s">>>>,
            <<<<"H", "o", "s", "p", "i", "t", "a", "l", " ", "C", "o", "u", "r", "s", "e">>,
              <<"H", "o", "s", "p", "i", "t", "a", "l", "C", "o", "u", "r", "s", "e">>,
              <<"C", "o", "u", "r", "s", "e">>>>,
            <<<<"M", "e", "d", "i", "c", "a", "t", "i", "o", "n", "s">>,
              <<"D", "i", "s", "c", "h", "a", "r", "g", "e", " ", "M", "e", "d", "s">>,
              <<"D", "i", "s", "c", "h", "a", "r", "g", "e", "M", "e", "d", "s">>>>,
            <<<<"F", "o", "l", "l", "o", "w", "-", "u", "p">>,
              <<"F", "o", "l", "l", "o", "w", " ", "U", "p">>,
              <<"F", "o", "l", "l", "o", "w", "U", "p">>>> >>

\* the optional names of known_sections
optional(template) ==
    CASE template = "Soap" -> {<<"N", "a", "r", "r", "a", "t", "i", "v", "e">>}
      [] template = "Hp" ->
           {<<"C", "h", "i", "e", "f", " ", "C", "o", "m", "p", "l", "a", "i", "n", "t">>,
            <<"R", "O", "S">>,
            <<"R", "e", "v", "i", "e", "w", " ", "o", "f", " ", "S", "y", "s", "t", "e", "m", "s">>,
            <<"N", "a", "r", "r", "a", "t", "i", "v", "e">>}
      [] template = "Discharge" ->
           {<<"D", "i", "s", "p", "o", "s", "i", "t", "i", "o", "n">>,
            <<"I", "n", "s", "t", "r", "u", "c", "t", "i", "o", "n", "s">>,
            <<"N", "a", "r", "r", "a", "t", "i", "v", "e">>}

\* every alias of every group
AllAliases(groups) ==
    UNION {{groups[g][a] : a \in 1..Len(groups[g])} : g \in 1..Len(groups)}

\* validate::known_sections
known_sections(template) ==
    {normalize_heading_key(name) :
        name \in AllAliases(required_groups(template)) \cup optional(template)}

\* SectionKeys that takes the section names as they are
SectionNamesAsKeys(note) == [i \in 1..Len(note.sections) |-> note.sections[i].name]

\* the key of each section of the note, in order
SectionKeys(note) ==
    [i \in 1..Len(note.sections) |-> normalize_heading_key(note.sections[i].name)]

\* counts.get(&key).copied().unwrap_or(0)
CountOf(keys, key) == Cardinality({i \in 1..Len(keys) : keys[i] = key})

\* GroupPresent that looks at the first alias of the group only
GroupPresentFirstAlias(group, keys) == CountOf(keys, normalize_heading_key(group[1])) > 0

\* the inner loop over the aliases of a group: present
GroupPresent(group, keys) ==
    \E a \in 1..Len(group) : CountOf(keys, normalize_heading_key(group[a])) > 0

\* the loop over the groups: one issue per group that is not present
MissingIssues(groups, keys, strict) ==
    LET at == Ascending({g \in 1..Len(groups) : ~GroupPresent(groups[g], keys)})
    IN  [k \in 1..Len(at) |->
            ValidationIssue("missing_required",
                            <<"Missing required section (", groups[at[k]][1], ")">>,
                            IF strict THEN "Error" ELSE "Warn",
                            Some(groups[at[k]][1]), None)]

\* the body of the loop over the sections, for one section with its key
SectionIssues(section, key, keys, known) ==
    (IF CountOf(keys, key) > 1
     THEN <<ValidationIssue("duplicate_section", <<"Duplicate section '", section.name, "'">>,
                            "Warn", Some(section.name), None)>>
     ELSE <<>>)
    \o (IF key \notin known
        THEN <<ValidationIssue("unknown_section", <<"Unknown section '", section.name, "'">>,
                               "Info", Some(section.name), None)>>
        ELSE <<>>)
    \o (IF Trim(section.content) = <<>> \/ ByteLen(Trim(section.content)) < MIN_SECTION_LEN
        THEN <<ValidationIssue("section_too_short",
                               <<"Section '", section.name, "' is empty or too short">>,
                               "Warn", Some(section.name), None)>>
        ELSE <<>>)

RECURSIVE PerSectionIssues(_, _, _, _)
\* the loop over the sections, from section i on
PerSectionIssues(sections, keys, known, i) ==
    IF i > Len(sections) THEN <<>>
    ELSE SectionIssues(sections[i], keys[i], keys, known)
             \o PerSectionIssues(sections, keys, known, i + 1)

\* IssuesOf that runs the loop over the sections only when not strict
IssuesOfStrictMissingOnly(note, keys, groups, known, strict) ==
    MissingIssues(groups, keys, strict)
        \o (IF strict THEN <<>> ELSE PerSectionIssues(note.sections, keys, known, 1))

\* validate_note, keys being the keys of the note's sections
IssuesOf(note, keys, groups, known, strict) ==
    MissingIssues(groups, keys, strict) \o PerSectionIssues(note.sections, keys, known, 1)

\* validate::validate_note
validate_note(note, template, strict) ==
    IssuesOf(note, SectionKeys(note), required_groups(template), known_sections(template),
             strict)

-----------------------------------------------------------------------------
(* Batch: reports.rs and cli.rs.  A path is its file stem and its           *)
(* extension; a Result is <<"Ok", value>> or <<"Err", error>>.              *)

Ok(v) == <<"Ok", v>>
Err(e) == <<"Err", e>>
is_ok(result) == result[1] = "Ok"

\* BatchFailure
BatchFailure(file, error) == [file |-> file, error |-> error]

\* BatchReport::new, without tool_name, version and runtime_ms
BatchReportNew ==
    [total_files |-> 0, ok_files |-> 0, failed_files |-> 0, counts_by_section |-> <<>>,
     warnings_count |-> 0, failures |-> <<>>]

\* *counts.entry(name).or_insert(0) += 1
CountSection(counts, name) ==
    IF name \in DOMAIN counts THEN [counts EXCEPT ![name] = @ + 1] ELSE counts @@ (name :> 1)

RECURSIVE CountSections(_, _, _)
\* the loop over note.sections, from section i on
CountSections(counts, sections, i) ==
    IF i > Len(sections) THEN counts
    ELSE CountSections(CountSection(counts, sections[i].name), sections, i + 1)

RECURSIVE RecordNotes(_, _, _)
\* the loop over notes of record_ok, from note i on
RecordNotes(report, notes, i) ==
    IF i > Len(notes) THEN report
    ELSE RecordNotes([report EXCEPT
                         !.counts_by_section = CountSections(@, notes[i].sections, 1),
                         !.warnings_count = @ + Len(notes[i].warnings)],
                     notes, i + 1)

\* BatchReport::record_ok
record_ok(report, notes) == RecordNotes([report EXCEPT !.ok_files = @ + 1], notes, 1)

\* record_failure that leaves the report as it is
record_failure_dropped(report, file, error) == report

\* BatchReport::record_failure
record_failure(report, file, error) ==
    [report EXCEPT !.failed_files = @ + 1,
                   !.failures = Append(@, BatchFailure(file, error))]

\* BatchReport::finalize
finalize(report) == [report EXCEPT !.total_files = report.ok_files + report.failed_files]

\* path.display().to_string()
display(path) == <<path.stem, ".", path.ext>>

\* util::file_stem
file_stem(path) == path.stem

\* OutputFormat::Json.extension()
extension == "json"

\* args.out_dir.join(format!("{}.{}", stem, args.out_format.extension()))
out_path(path) == [stem |-> file_stem(path), ext |-> extension]

\* the body of the loop of process_file for note idx (1-based), r being what
\* extract_candidates returned
NoteOfFile(r, path, args, idx, warnings) ==
    build_note(r.candidates, args.format, Some(display(path)), idx, r.warnings \o warnings)

\* the notes process_file builds from what split_bundle returned
NotesOfFile(split, path, args, cfg) ==
    [i \in 1..Len(split[1]) |->
        NoteOfFile(extract_candidates(split[1][i], args.format, cfg,
                                      [apply_heuristics |-> cfg.enable_fallback_heuristics]),
                   path, args, i, split[2])]

\* cli::process_file without its write: content is what util::read_to_string
\* gives for the path (None when the read fails), writable whether
\* render_notes and util::write_string succeed
process_file(path, content, writable, args, cfg, bundle_mode) ==
    IF content = None THEN Err("read")
    ELSE IF ~writable THEN Err("write")
    ELSE Ok(NotesOfFile(split_bundle(Unwrap(content), bundle_mode, cfg), path, args, cfg))

\* the match on file_result in run_batch
Recorded(report, path, file_result) ==
    IF is_ok(file_result) THEN record_ok(report, file_result[2])
    ELSE record_failure(report, display(path), file_result[2])

\* util::write_string(out_path, rendered), done by process_file when it returns Ok
Written(outputs, path, file_result) ==
    IF is_ok(file_result)
    THEN [p \in DOMAIN outputs \cup {out_path(path)} |->
             IF p = out_path(path) THEN file_result[2] ELSE outputs[p]]
    ELSE outputs

-----------------------------------------------------------------------------
(* Configurations and inputs *)

NoteFormat == {"Soap", "Hp", "Discharge"}
BundleMode == {"Auto", "On", "Off"}

\* impl Default for FormatsConfig
DefaultFormats ==
    [Soap |-> <<Subjective, Objective, Assessment, Plan>>,
     Hp |-> <<ChiefComplaint, Hpi, Pmh, Medications, Allergies, Ros, PhysicalExam,
              Assessment, Plan>>,
     Discharge |-> <<AdmissionDx, DischargeDx, HospitalCourse, Medications, FollowUp,
                     Disposition, Instructions>>]

\* impl Default for BundleConfig: "----- NOTE -----" and "=== VISIT ==="
DefaultDelimiters ==
    << <<"-", "-", "-", "-", "-", " ", "N", "O", "T", "E", " ", "-", "-", "-", "-", "-">>,
       <<"=", "=", "=", " ", "V", "I", "S", "I", "T", " ", "=", "=", "=">> >>

\* impl Default for Config
DefaultConfig ==
    [formats |-> DefaultFormats,
     heading_aliases |-> <<>>,
     enable_fallback_heuristics |-> TRUE,
     bundle |-> [mode_default |-> "Auto", delimiters |-> DefaultDelimiters]]

\* Config::load: configurations read from a file; section_order is any list of
\* section names, mode_default any bundle mode
WithMode(mode) == [DefaultConfig EXCEPT !.bundle.mode_default = mode]
WithSoapOrder(order) == [DefaultConfig EXCEPT !.formats.Soap = order]

LoadedConfigs ==
    {WithMode("On"), WithMode("Off"),
     WithSoapOrder(<<Narrative, Plan>>),
     WithSoapOrder(<<Plan, Subjective, Plan>>)}

\* the calls of parse_notes: <<config, format, options.apply_heuristics>>
Calls ==
    {<<DefaultConfig, f, h>> : f \in NoteFormat, h \in BOOLEAN}
        \cup {<<c, "Soap", c.enable_fallback_heuristics>> : c \in LoadedConfigs}

\* the lines the input texts are made of
LineVocabulary ==
    { <<"P", "L", "A", "N">>,                                     \* "PLAN"
      <<"H", "P", "I", ":">>,                                     \* "HPI:"
      <<"S", ":", " ", "o", "k">>,                                \* "S: ok"
      <<"C", "C", " ", "-", " ", "p", "a", "i", "n">>,            \* "CC - pain"
      <<>>,                                                       \* ""
      <<" ", "F", "o", "o", ":", " ", "b", "a", "r">>,            \* " Foo: bar"
      <<"=", "=", "=", " ", "V", "I", "S", "I", "T", " ", "=", "=", "=">>,
      <<"2", "0", "2", "4", "-", "0", "1", "-", "0", "2">> }      \* "2024-01-02"

\* the input texts: at most MaxLines lines of the vocabulary, joined by "\n"
InputTexts == {Join(doc, <<LF>>) : doc \in TextsUpTo(LineVocabulary, MaxLines)}

-----------------------------------------------------------------------------
(* parse_notes: parser/mod.rs *)

source_file == None
note_offset == 0

\* no Normalizer run, no parse_notes call, no Heading run, no Validator run
NormIdle == input = <<>> /\ normalized = <<>> /\ renormalized = <<>> /\ npc = "idle"
PipeIdle ==
    /\ text = <<>> /\ format = "Soap" /\ options = [apply_heuristics |-> TRUE]
    /\ pc = "idle" /\ note_texts = <<>> /\ bundle_warnings = <<>>
    /\ extracted = <<>> /\ structured = <<>>
HeadIdle ==
    /\ hline = <<>> /\ hkey = <<>> /\ hmapped = None /\ hremapped = None
    /\ hdetected = None /\ hpc = "idle"
ValIdle ==
    /\ vnote = [sections |-> <<>>] /\ vtemplate = "Soap" /\ vstrict = FALSE
    /\ vissues = <<>> /\ vpc = "idle"
BatchIdle ==
    /\ globbed = <<>> /\ bargs = [format |-> "Soap", bundle |-> None] /\ bidx = 0
    /\ breport = BatchReportNew /\ boutputs = <<>> /\ bpc = "idle"

Init ==
    /\ text \in InputTexts
    /\ \E call \in Calls :
          /\ config = call[1]
          /\ format = call[2]
          /\ options = [apply_heuristics |-> call[3]]
    /\ pc = "start"
    /\ note_texts = <<>>
    /\ bundle_warnings = <<>>
    /\ extracted = <<>>
    /\ structured = <<>>
    /\ input = <<>>
    /\ normalized = <<>>
    /\ renormalized = <<>>
    /\ npc = "idle"
    /\ HeadIdle
    /\ ValIdle
    /\ BatchIdle

\* let (note_texts, bundle_warnings) = split_bundle(text, config.bundle.mode_default, config)
SplitBundle ==
    /\ pc = "start"
    /\ LET r == split_bundle(text, config.bundle.mode_default, config)
       IN  /\ note_texts' = r[1]
           /\ bundle_warnings' = r[2]
    /\ pc' = "notes"
    /\ UNCHANGED <<text, config, format, options, extracted, structured,
                   normVars, headVars, valVars, batchVars>>

\* the body of the closure of parse_notes for note idx (1-based), r being what
\* extract_candidates returned: warnings.extend(bundle_warnings), build_note
NoteBuilt(idx, r) ==
    /\ extracted' = Append(extracted, r)
    /\ structured' = Append(structured,
                            build_note(r.candidates, format, source_file, note_offset + idx,
                                       r.warnings \o bundle_warnings))

\* one step of note_texts.into_iter().enumerate().map(..)
ParseNote ==
    /\ pc = "notes"
    /\ Len(structured) < Len(note_texts)
    /\ NoteBuilt(Len(structured) + 1,
                 extract_candidates(note_texts[Len(structured) + 1], format, config, options))
    /\ UNCHANGED <<text, config, format, options, note_texts, bundle_warnings, pc,
                   normVars, headVars, valVars, batchVars>>

\* .collect(): parse_notes returns
Collect ==
    /\ pc = "notes"
    /\ Len(structured) = Len(note_texts)
    /\ pc' = "done"
    /\ UNCHANGED <<text, config, format, options, note_texts, bundle_warnings,
                   extracted, structured, normVars, headVars, valVars, batchVars>>

Next == SplitBundle \/ ParseNote \/ Collect

Spec == Init /\ [][Next]_vars

-----------------------------------------------------------------------------
(* Normalizer run: normalize a text, then normalize the result again *)

NormAlphabet == {"a", SP, LF, CR, TAB, "*", BULLET}

NormInit ==
    /\ input \in TextsUpTo(NormAlphabet, MaxTextLen)
    /\ normalized = <<>>
    /\ renormalized = <<>>
    /\ npc = "start"
    /\ text = <<>>
    /\ config = DefaultConfig
    /\ format = "Soap"
    /\ options = [apply_heuristics |-> TRUE]
    /\ pc = "idle"
    /\ note_texts = <<>>
    /\ bundle_warnings = <<>>
    /\ extracted = <<>>
    /\ structured = <<>>
    /\ HeadIdle
    /\ ValIdle
    /\ BatchIdle

Normalize ==
    /\ npc = "start"
    /\ normalized' = normalize_text(input)
    /\ npc' = "once"
    /\ UNCHANGED <<input, renormalized, pipeVars, headVars, valVars, batchVars>>

Renormalize ==
    /\ npc = "once"
    /\ renormalized' = normalize_text(normalized)
    /\ npc' = "twice"
    /\ UNCHANGED <<input, normalized, pipeVars, headVars, valVars, batchVars>>

NormNext == Normalize \/ Renormalize

SpecNormalize == NormInit /\ [][NormNext]_vars

-----------------------------------------------------------------------------
(* Bundle Splitter run: split_bundle on a text, in each bundle mode *)

\* the lines the bundle texts are made of
BundleVocabulary ==
    { <<"A">>,
      <<" ", "B">>,
      <<>>,
      DefaultDelimiters[1],                                        \* "----- NOTE -----"
      <<" ">> \o DefaultDelimiters[2] \o <<" ">>,                  \* " === VISIT === "
      <<"2", "0", "2", "4", "-", "0", "1", "-", "0", "2">>,        \* "2024-01-02"
      <<"0", "1", "/", "0", "2", "/", "2", "0", "2", "4", " ", "x">> } \* "01/02/2024 x"

BundleTexts == {Join(doc, <<LF>>) : doc \in TextsUpTo(BundleVocabulary, MaxBundleLines)}

\* split_bundle(text, mode, config), the mode carried by config.bundle.mode_default
BundleInit ==
    /\ text \in BundleTexts
    /\ config \in {WithMode(mode) : mode \in BundleMode}
    /\ format = "Soap"
    /\ options = [apply_heuristics |-> TRUE]
    /\ pc = "start"
    /\ note_texts = <<>>
    /\ bundle_warnings = <<>>
    /\ extracted = <<>>
    /\ structured = <<>>
    /\ NormIdle
    /\ HeadIdle
    /\ ValIdle
    /\ BatchIdle

SpecBundle == BundleInit /\ [][SplitBundle]_vars

-----------------------------------------------------------------------------
(* Heading run: normalize_heading_key, canonicalize_heading (twice) and     *)
(* detect_heading on one line, under a configuration with user aliases      *)

\* the lines and raw headings under test
HeadingVocabulary ==
    { <<"H", "x", ":">>,                                             \* "Hx:"
      <<"H", "X">>,                                                  \* "HX"
      <<"h", "x", ":", " ", "r", "e", "s", "t">>,                    \* "hx: rest"
      <<"D", "x", ":", " ", "f", "l", "u">>,                         \* "Dx: flu"
      <<"D", "X">>,                                                  \* "DX"
      <<"I", "m", "p", ":">>,                                        \* "Imp:"
      <<"I", "M", "P">>,                                             \* "IMP"
      <<"I", "m", "p", ":", " ", "o", "k">>,                         \* "Imp: ok"
      <<"I", "m", "p", "r", "e", "s", "s", "i", "o", "n">>,          \* "Impression"
      <<"F", "o", "o", ":">>,                                        \* "Foo:"
      <<"F", "O", "O">>,                                             \* "FOO"
      <<"F", "o", "o", ":", " ", "b", "a", "r">>,                    \* "Foo: bar"
      <<"H", ".", "P", ".", "I", ".", ":">>,                         \* "H.P.I.:"
      <<"F", "/", "U", ":">>,                                        \* "F/U:"
      <<"P", "L", "A", "N">>,                                        \* "PLAN"
      <<"P", "l", "a", "n", ":">>,                                   \* "Plan:"
      <<" ", "p", "l", "a", "n", ":", " ", "r", "e", "s", "t", " ">>, \* " plan: rest "
      <<" ", " ">>,                                                  \* "  "
      <<"F", "o", "l", "l", "o", "w", "-", "u", "p", ":">>,          \* "Follow-up:"
      <<"N", "a", "r", "r", "a", "t", "i", "v", "e">>,               \* "Narrative"
      <<"P", "M", "H">>,                                             \* "PMH"
      <<"p", "m", "h">>,                                             \* "pmh"
      <<"H", "P", "I", ":">> }                                       \* "HPI:"

\* the characters of the short raw headings
KeyAlphabet == {"p", "S", "x", SP, "-", ".", ":"}

\* every section name a template can list, Narrative excepted
SectionNames ==
    {Subjective, Objective, Assessment, Plan, ChiefComplaint, Hpi, Pmh, Medications,
     Allergies, Ros, PhysicalExam, AdmissionDx, DischargeDx, HospitalCourse, FollowUp,
     Disposition, Instructions}

HeadingInputs ==
    HeadingVocabulary \cup SectionNames \cup TextsUpTo(KeyAlphabet, MaxKeyLen)

\* the alias table of the test detects_heading_with_alias
TestAliases == << <<<<"H", "x">>, Pmh>> >>

\* heading_aliases tables read from a configuration file, each in an iteration
\* order of the HashMap
AliasTables ==
    { <<>>,
      TestAliases,
      << <<<<"H", "x">>, Pmh>>, <<<<"D", "x">>, Assessment>> >>,
      << <<<<"D", "x", ":">>, DischargeDx>> >>,
      << <<<<"H", "x">>, Pmh>>, <<<<"H", "X", ":">>, Hpi>> >>,
      << <<<<"H", "X", ":">>, Hpi>>, <<<<"H", "x">>, Pmh>> >>,
      << <<<<"I", "m", "p">>, <<"I", "m", "p", "r", "e", "s", "s", "i", "o", "n">>>> >>,
      << <<Pmh, Hpi>> >> }

WithAliases(table) == [DefaultConfig EXCEPT !.heading_aliases = table]

HeadInit ==
    /\ hline \in HeadingInputs
    /\ config \in {WithAliases(table) : table \in AliasTables}
    /\ hkey = <<>>
    /\ hmapped = None
    /\ hremapped = None
    /\ hdetected = None
    /\ hpc = "start"
    /\ PipeIdle
    /\ NormIdle
    /\ ValIdle
    /\ BatchIdle

\* util::normalize_heading_key(hline)
NormalizeKey ==
    /\ hpc = "start"
    /\ hkey' = normalize_heading_key(hline)
    /\ hpc' = "key"
    /\ UNCHANGED <<hline, hmapped, hremapped, hdetected, normVars, pipeVars, valVars, batchVars>>

\* headings::canonicalize_heading(hline, config)
Canonicalize ==
    /\ hpc = "key"
    /\ hmapped' = canonicalize_heading(hline, config)
    /\ hpc' = "mapped"
    /\ UNCHANGED <<hline, hkey, hremapped, hdetected, normVars, pipeVars, valVars, batchVars>>

\* headings::canonicalize_heading on the name the first call returned
Recanonicalize ==
    /\ hpc = "mapped"
    /\ hmapped # None
    /\ hremapped' = canonicalize_heading(Unwrap(hmapped), config)
    /\ hpc' = "remapped"
    /\ UNCHANGED <<hline, hkey, hmapped, hdetected, normVars, pipeVars, valVars, batchVars>>

\* headings::detect_heading(hline, config)
DetectHeading ==
    /\ hpc = "remapped" \/ (hpc = "mapped" /\ hmapped = None)
    /\ hdetected' = detect_heading(hline, config)
    /\ hpc' = "done"
    /\ UNCHANGED <<hline, hkey, hmapped, hremapped, normVars, pipeVars, valVars, batchVars>>

HeadNext == NormalizeKey \/ Canonicalize \/ Recanonicalize \/ DetectHeading

SpecHeadings == HeadInit /\ [][HeadNext]_vars

-----------------------------------------------------------------------------
(* Validator run: validate_note on a note, for each template, strict or not *)

\* the section names of the notes under validation
NoteSectionNames ==
    {Subjective, Objective, Plan, Narrative, FollowUp,
     <<"D", "x">>, <<"s", "u", "b", "j", "e", "c", "t", "i", "v", "e", ":">>,
     <<"F", "o", "o">>}

\* the section contents: shorter than MIN_SECTION_LEN, and exactly that long
NoteContents ==
    {<<"s", "h", "o", "r", "t">>,
     <<"V", "i", "t", "a", "l", "s", " ", "a", "r", "e", " ", "s", "t", "a", "b", "l", "e", " ", "o", "k">>}

\* further contents of a Plan section: blank, 19 characters between blanks,
\* and "Temp 38.5(degree)C stable.", 19 characters in 20 bytes
PlanContents ==
    {<<" ", "\t">>,
     <<" ", "V", "i", "t", "a", "l", "s", " ", "a", "r", "e", " ", "s", "t", "a", "b", "l", "e", " ", "k", " ">>,
     <<"T", "e", "m", "p", " ", "3", "8", ".", "5", DEGREE, "C", " ", "s", "t", "a", "b", "l", "e", ".">>}

NoteSections ==
    {Section(name, content, ConfidenceDirect) : name \in NoteSectionNames, content \in NoteContents}
        \cup {Section(Plan, content, ConfidenceDirect) : content \in PlanContents}

\* a note of one section for every alias of every required group
AliasNotes ==
    {[sections |-> <<Section(alias, content, ConfidenceDirect)>>] :
        alias \in UNION {AllAliases(required_groups(t)) : t \in Template},
        content \in NoteContents}

ValInit ==
    /\ vnote \in {[sections |-> sections] : sections \in TextsUpTo(NoteSections, MaxSections)}
                   \cup AliasNotes
    /\ vtemplate \in Template
    /\ vstrict \in BOOLEAN
    /\ vissues = <<>>
    /\ vpc = "start"
    /\ config = DefaultConfig
    /\ PipeIdle
    /\ NormIdle
    /\ HeadIdle
    /\ BatchIdle

\* validate::validate_note(vnote, vtemplate, vstrict)
ValidateNote ==
    /\ vpc = "start"
    /\ vissues' = validate_note(vnote, vtemplate, vstrict)
    /\ vpc' = "done"
    /\ UNCHANGED <<vnote, vtemplate, vstrict, normVars, pipeVars, headVars, batchVars>>

SpecValidate == ValInit /\ [][ValidateNote]_vars

-----------------------------------------------------------------------------
(* Batch run: run_batch over the entries of a glob, in a directory with     *)
(* readable and unreadable files                                            *)

MaxEntries == 3

\* the files of input_dir: two files of the same stem, a file that is not
\* UTF-8, and a file whose output cannot be written
Paths ==
    {[stem |-> "a", ext |-> "txt"], [stem |-> "a", ext |-> "md"],
     [stem |-> "bad", ext |-> "txt"], [stem |-> "b", ext |-> "txt"]}

\* util::read_to_string(path): "S: ok", a bundle of two notes "PLAN" and
\* "HPI:", and an error
ReadToString(path) ==
    CASE path.ext = "md" ->
           Some(<<"P", "L", "A", "N", LF, "=", "=", "=", " ", "V", "I", "S", "I", "T", " ",
                  "=", "=", "=", LF, "H", "P", "I", ":">>)
      [] path.stem = "bad" -> None
      [] OTHER -> Some(<<"S", ":", " ", "o", "k">>)

\* whether out_dir/<stem>.json can be written
Writable(path) == path.stem # "b"

\* what the glob iterator yields: paths, each at most once, and errors
GlobEntries == {Ok(path) : path \in Paths} \cup {Err("glob error")}
Globs ==
    {es \in TextsUpTo(GlobEntries, MaxEntries) :
        \A i, j \in 1..Len(es) : (i # j /\ is_ok(es[i])) => es[i] # es[j]}

\* args.bundle.unwrap_or(config.bundle.mode_default)
bundle_mode(args, cfg) ==
    IF args.bundle = None THEN cfg.bundle.mode_default ELSE Unwrap(args.bundle)

BatchInit ==
    /\ globbed \in Globs
    /\ bargs \in {[format |-> "Soap", bundle |-> bundle] : bundle \in {None, Some("Off")}}
    /\ bidx = 0
    /\ breport = BatchReportNew
    /\ boutputs = <<>>
    /\ bpc = "start"
    /\ config = DefaultConfig
    /\ PipeIdle
    /\ NormIdle
    /\ HeadIdle
    /\ ValIdle

\* run_batch up to its loop: BatchReport::new, create_dir_all, the pattern
StartBatch ==
    /\ bpc = "start"
    /\ breport' = BatchReportNew
    /\ bpc' = "loop"
    /\ UNCHANGED <<globbed, bargs, bidx, boutputs, normVars, pipeVars, headVars, valVars>>

\* one turn of the loop on an Ok(path) entry, file_result being what
\* process_file returned
FileProcessed(path, file_result) ==
    /\ breport' = Recorded(breport, path, file_result)
    /\ boutputs' = Written(boutputs, path, file_result)

\* one turn of the loop over the glob entries
ProcessEntry ==
    /\ bpc = "loop"
    /\ bidx < Len(globbed)
    /\ IF is_ok(globbed[bidx + 1])
       THEN FileProcessed(globbed[bidx + 1][2],
                          process_file(globbed[bidx + 1][2],
                                       ReadToString(globbed[bidx + 1][2]),
                                       Writable(globbed[bidx + 1][2]),
                                       bargs, config, bundle_mode(bargs, config)))
       ELSE /\ breport' = record_failure(breport, <<"glob">>, globbed[bidx + 1][2])
            /\ boutputs' = boutputs
    /\ bidx' = bidx + 1
    /\ UNCHANGED <<globbed, bargs, bpc, normVars, pipeVars, headVars, valVars>>

\* the end of the loop: report.finalize(), Ok(report)
FinishBatch ==
    /\ bpc = "loop"
    /\ bidx = Len(globbed)
    /\ breport' = finalize(breport)
    /\ bpc' = "done"
    /\ UNCHANGED <<globbed, bargs, bidx, boutputs, normVars, pipeVars, headVars, valVars>>

BatchNext == StartBatch \/ ProcessEntry \/ FinishBatch

SpecBatch == BatchInit /\ [][BatchNext]_vars

-----------------------------------------------------------------------------
(* Claims about the Bundle Splitter.  They are stated over note_texts and   *)
(* bundle_warnings, what split_bundle returned for text.                    *)

\* split_bundle has returned
Split == pc # "start" /\ pc # "idle"
mode_default == config.bundle.mode_default

\* the line equals, after trimming, a configured delimiter
IsSeparator(l) ==
    \E d \in 1..Len(config.bundle.delimiters) : Trim(l) = Trim(config.bundle.delimiters[d])

\* the line starts with a date, YYYY-MM-DD or MM/DD/YYYY
IsDateLine(l) == DATE_RE(l)

RECURSIVE SegmentsFrom(_, _)
\* the runs of lines between the separators of ls, the empty runs included:
\* one more run than there are separators
SegmentsFrom(ls, current) ==
    IF Len(ls) = 0 THEN <<current>>
    ELSE IF IsSeparator(ls[1]) THEN <<current>> \o SegmentsFrom(Tail(ls), <<>>)
    ELSE SegmentsFrom(Tail(ls), Append(current, ls[1]))

\* the segments of a text with at least one line, each joined and trimmed
Segments(t) ==
    LET runs == SegmentsFrom(Lines(t), <<>>)
        at == Ascending({i \in 1..Len(runs) : Len(runs[i]) > 0})
    IN  [k \in 1..Len(at) |-> Trim(Join(runs[at[k]], <<LF>>))]

\* every run between separators, joined and trimmed
TrimmedSegments(t) ==
    LET runs == SegmentsFrom(Lines(t), <<>>)
    IN  [k \in 1..Len(runs) |-> Trim(Join(runs[k], <<LF>>))]

SeparatorLines(t) == {i \in 1..Len(Lines(t)) : IsSeparator(Lines(t)[i])}
DateLines(t) == {i \in 1..Len(Lines(t)) : IsDateLine(Lines(t)[i])}

\* C11: in mode off split_bundle returns exactly one note, the whole text,
\* and no warning, whatever delimiter and date lines the text holds.
C11_OffWhole ==
    (Split /\ mode_default = "Off") => (note_texts = <<text>> /\ bundle_warnings = <<>>)

\* mode off on a text with a delimiter line between two date lines
C11_Witness ==
    /\ Split
    /\ mode_default = "Off"
    /\ SeparatorLines(text) # {}
    /\ Cardinality(DateLines(text)) >= 2
    /\ Len(note_texts) = 1

\* C12: in mode on or auto a text whose delimiter lines separate k >= 2
\* non-blank segments comes back as exactly the k trimmed segments, in source
\* order, without the delimiter lines.
C12_DelimiterSplit ==
    (Split /\ mode_default \in {"On", "Auto"}) =>
        LET segments == Segments(text)
        IN  (Len(segments) >= 2 /\ \A k \in 1..Len(segments) : Len(segments[k]) > 0)
                => note_texts = segments

\* two segments around two delimiter lines, one with whitespace to trim, came
\* back as two notes
C12_Witness ==
    /\ Split
    /\ mode_default = "On"
    /\ Cardinality(SeparatorLines(text)) = 2
    /\ Len(note_texts) = 2
    /\ note_texts[1] = <<"A">>
    /\ note_texts[2] = <<"B">>


\* C13: split_bundle emits a "bundle_not_split" Warning if and only if the
\* mode is on and the delimiter strategy and the date strategy both yield at
\* most one note; otherwise it emits no warning at all.
C13_NotSplitWarning ==
    Split =>
        IF mode_default = "On" /\ Len(Segments(text)) <= 1
               /\ Cardinality(DateLines(text)) < 2
        THEN /\ Len(bundle_warnings) = 1
             /\ bundle_warnings[1].code = "bundle_not_split"
             /\ bundle_warnings[1].severity = "Warning"
        ELSE bundle_warnings = <<>>

\* mode on, a text with a delimiter line and a date line that neither
\* strategy splits: one note and the warning
C13_Witness ==
    /\ Split
    /\ mode_default = "On"
    /\ SeparatorLines(text) # {}
    /\ Cardinality(DateLines(text)) = 1
    /\ Len(note_texts) = 1
    /\ Len(bundle_warnings) = 1

\* C14: the date strategy is used only when the delimiter strategy yields at
\* most one note; with fewer than two date lines it returns the whole text as
\* one note; a text without delimiter line and without date line is one note
\* in every mode.
C14_DateFallback ==
    Split =>
        /\ (mode_default # "Off" /\ Len(Segments(text)) >= 2)
               => Len(note_texts) = Len(Segments(text))
        /\ (mode_default # "Off" /\ Len(Segments(text)) <= 1
               /\ Cardinality(DateLines(text)) < 2)
               => note_texts = <<text>>
        /\ (SeparatorLines(text) = {} /\ DateLines(text) = {}) => Len(note_texts) = 1

\* mode auto, delimiters split nothing apart and a single date line sits
\* after another line: the whole text is the one note
C14_Witness ==
    /\ Split
    /\ mode_default = "Auto"
    /\ Len(Segments(text)) = 1
    /\ DateLines(text) = {2}
    /\ Len(Lines(text)) >= 3
    /\ note_texts = <<text>>

\* the notes joined with the delimiter d on a line of its own
Rejoined(d) == Join(note_texts, <<LF>> \o d \o <<LF>>)

\* C15: when split_bundle split the text on delimiters, joining the notes with
\* the delimiter gives back the text, up to the leading and trailing
\* whitespace of each segment.
C15_RoundTrip ==
    (Split /\ mode_default # "Off" /\ Len(Segments(text)) >= 2) =>
        \E d \in 1..Len(config.bundle.delimiters) :
            TrimmedSegments(Rejoined(config.bundle.delimiters[d])) = TrimmedSegments(text)

\* C15 for the texts in which every delimiter line stands between two
\* segments: there the round trip holds.
C15_InnerDelimiters ==
    (\A k \in 1..Len(TrimmedSegments(text)) : Len(TrimmedSegments(text)[k]) > 0)
        => C15_RoundTrip

-----------------------------------------------------------------------------
(* Claims about the Heading Detector and the key function.  They are stated *)
(* over hkey, hmapped, hremapped and hdetected, the results for hline.      *)

Keyed == hpc \in {"key", "mapped", "remapped", "done"}
Mapped == hpc \in {"mapped", "remapped", "done"}
Detected == hpc = "done"

\* the raw heading texts the three patterns of detect_heading capture on a line
RawHeadings(l) ==
    {Unwrap(r) : r \in {ALL_CAPS_RE(Trim(l)), CaptureH(COLON_RE(Trim(l))),
                        CaptureH(INLINE_RE(Trim(l)))} \ {None}}

\* the user aliases whose key equals, by normalized key, that of raw
UserAliases(raw) ==
    {i \in 1..Len(config.heading_aliases) :
        normalize_heading_key(config.heading_aliases[i][1]) = normalize_heading_key(raw)}

\* the built-in names filed under the normalized key of raw
BuiltIn(raw) ==
    {HEADING_MAP[i][2] : i \in {j \in 1..Len(HEADING_MAP) :
                                   HEADING_MAP[j][1] = normalize_heading_key(raw)}}

\* the names raw resolves to through the user table or the built-in table
Resolutions(raw) ==
    {config.heading_aliases[i][2] : i \in UserAliases(raw)} \cup BuiltIn(raw)

\* C16: detect_heading returns a heading only if the raw heading of a matching
\* pattern resolves through the user or the built-in alias table; a line whose
\* captured headings resolve in neither table, and a blank line, give none.
C16_OnlyResolved ==
    Detected =>
        /\ hdetected # None =>
               \E raw \in RawHeadings(hline) : Unwrap(hdetected)[1] \in Resolutions(raw)
        /\ (\A raw \in RawHeadings(hline) : Resolutions(raw) = {}) => hdetected = None
        /\ Len(Trim(hline)) = 0 => hdetected = None

\* "Foo:" matches the "Heading:" pattern, resolves nowhere and is no heading
C16_Witness ==
    /\ Detected
    /\ hline = <<"F", "o", "o", ":">>
    /\ RawHeadings(hline) # {}
    /\ hdetected = None

\* C17: canonicalize_heading returns the target of a user alias whose key
\* equals the raw heading by normalized key, also when the built-in table
\* knows the heading, and the built-in name only if no user alias matches;
\* with the user alias "Hx" -> "PMH" the line "Hx:" is detected as "PMH".
C17_UserFirst ==
    /\ Mapped =>
          IF UserAliases(hline) # {}
          THEN \E i \in UserAliases(hline) : hmapped = Some(config.heading_aliases[i][2])
          ELSE /\ BuiltIn(hline) = {} => hmapped = None
               /\ BuiltIn(hline) # {} => (hmapped # None /\ Unwrap(hmapped) \in BuiltIn(hline))
    /\ (Detected /\ config.heading_aliases = TestAliases /\ hline = <<"H", "x", ":">>)
          => hdetected = Some(<<Pmh, None>>)

\* the user alias "Dx:" -> "Discharge Dx" wins over the built-in DX -> Assessment
C17_Witness ==
    /\ Detected
    /\ hline = <<"D", "X">>
    /\ UserAliases(hline) # {}
    /\ BuiltIn(hline) = {Assessment}
    /\ hmapped = Some(DischargeDx)
    /\ hdetected = Some(<<DischargeDx, None>>)

RECURSIVE CollapseSpaces(_)
\* every run of spaces replaced by one space
CollapseSpaces(s) ==
    IF Len(s) <= 1 THEN s
    ELSE IF s[1] = SP /\ s[2] = SP THEN CollapseSpaces(Tail(s))
    ELSE <<s[1]>> \o CollapseSpaces(Tail(s))

\* the key as the specification words it: strip the trailing colon, replace
\* '-', '/', '&' by spaces, uppercase the alphanumeric characters, collapse
\* each run of other characters to one space, trim
KeyAsSpecified(s) ==
    LET stripped == IF Len(Trim(s)) > 0 /\ Trim(s)[Len(Trim(s))] = ":"
                    THEN SubSeq(Trim(s), 1, Len(Trim(s)) - 1) ELSE Trim(s)
        spaced == [i \in 1..Len(stripped) |->
                      IF stripped[i] \in AsciiAlphanumeric
                      THEN to_ascii_uppercase(stripped[i]) ELSE SP]
    IN  Trim(CollapseSpaces(spaced))

\* C18: normalize_heading_key computes the key defined by the specification,
\* a run of non-alphanumeric characters such as '.' becoming one space.
C18_KeyAsSpecified == Keyed => hkey = KeyAsSpecified(hline)

\* C18 without the characters the code drops: on raw headings made of
\* alphanumerics, whitespace, ':', '-', '/' and '&' the two keys agree.
C18_WithoutPunctuation ==
    (\A i \in 1..Len(hline) :
        hline[i] \in AsciiAlphanumeric \cup Whitespace \cup {"-", "/", "&"}
            \/ (hline[i] = ":" /\ \A j \in i..Len(hline) : hline[j] \in Whitespace \cup {":"}))
        => C18_KeyAsSpecified

\* C19: if canonicalize_heading(h) = c then canonicalize_heading(c) = c, and
\* every section name of a template resolves to itself.
C19_Idempotent ==
    /\ (hpc \in {"remapped", "done"} /\ hmapped # None) => hremapped = hmapped
    /\ Mapped =>
          \A fmt \in NoteFormat :
              \A k \in 1..Len(section_order(config, fmt)) :
                  canonicalize_heading(section_order(config, fmt)[k], config)
                      = Some(section_order(config, fmt)[k])

\* C19 holds when the configuration has no user alias.
C19_BuiltInOnly == config.heading_aliases = <<>> => C19_Idempotent

-----------------------------------------------------------------------------
(* Claims about the Normalizer *)

\* C1: normalize_text is idempotent: normalizing the normalized text returns
\* it unchanged.
C1_Idempotent == npc = "twice" => renormalized = normalized

\* number of lines of a text, line endings CR, CRLF and LF alike
LineCount(s) == Len(Lines(ReplaceChar(ReplaceStr(s, <<CR, LF>>, <<LF>>), CR, LF)))

\* C2: normalize_text never removes a line: the output has as many lines as
\* the input.
C2_LineCountKept == npc \in {"once", "twice"} => LineCount(normalized) = LineCount(input)

-----------------------------------------------------------------------------
(* Claims about parse_notes and the Sectionizer.  They are stated over      *)
(* extracted, the record of every extract_candidates call made so far.      *)

\* the notes parsed so far
Parsed == 1..Len(extracted)

\* the headings extract_sections works with for parsed note i: the scanned
\* ones, or failing them what the fallback pattern finds when heuristics are on
UsedHeadings(i) ==
    IF Len(extracted[i].headings_found) > 0 THEN extracted[i].headings_found
    ELSE IF options.apply_heuristics THEN fallback_headings(extracted[i].lines, config)
    ELSE <<>>

\* the strict scan found nothing and the fallback found something
FellBack(i) == Len(extracted[i].headings_found) = 0 /\ Len(UsedHeadings(i)) > 0

\* neither the strict scan nor the fallback found a heading
NoHeadings(i) == Len(UsedHeadings(i)) = 0

\* the warnings of parsed note i with the given code
WarningsWith(i, code) ==
    {k \in 1..Len(extracted[i].warnings) : extracted[i].warnings[k].code = code}

\* C3: parse_notes returns at least one StructuredNote and every returned note
\* has at least one section, for every text, template, bundle mode and
\* configuration.
C3_AtLeastOneSection ==
    pc = "done" =>
        /\ Len(structured) >= 1
        /\ \A i \in 1..Len(structured) : Len(structured[i].sections) >= 1

\* the empty text was parsed: one note with the single section "Narrative"
C3_Witness ==
    /\ pc = "done"
    /\ Len(text) = 0
    /\ Len(structured) = 1
    /\ Len(structured[1].sections) = 1
    /\ structured[1].sections[1].name = Narrative

\* the single catch-all candidate of parsed note i, but for its content
IsCatchAll(i) ==
    /\ Len(extracted[i].candidates) = 1
    /\ extracted[i].candidates[1].name = Narrative
    /\ extracted[i].candidates[1].start_line = 1
    /\ extracted[i].candidates[1].end_line = Max(Len(extracted[i].lines), 1)
    /\ extracted[i].candidates[1].confidence = 40
    /\ Cardinality(WarningsWith(i, "no_headings")) = 1
    /\ \A k \in WarningsWith(i, "no_headings") : extracted[i].warnings[k].severity = "Warning"
    /\ WarningsWith(i, "fallback_heuristics") = {}

\* C4 as claimed: without headings the single "Narrative" candidate spans all
\* lines at confidence 0.4, its content is all lines joined, and the warnings
\* hold exactly one "no_headings" Warning and no "fallback_heuristics".
C4_CatchAllJoined ==
    \A i \in Parsed :
        NoHeadings(i) =>
            /\ IsCatchAll(i)
            /\ extracted[i].candidates[1].content = Join(extracted[i].lines, <<LF>>)

\* C4 as amended: the content is all lines joined and then trimmed of leading
\* and trailing whitespace.
C4_CatchAllTrimmed ==
    \A i \in Parsed :
        NoHeadings(i) =>
            /\ IsCatchAll(i)
            /\ extracted[i].candidates[1].content = Trim(Join(extracted[i].lines, <<LF>>))

\* a note without headings whose joined lines begin with whitespace
C4_Witness ==
    \E i \in Parsed :
        /\ NoHeadings(i)
        /\ Len(extracted[i].lines) >= 2
        /\ Trim(Join(extracted[i].lines, <<LF>>)) # Join(extracted[i].lines, <<LF>>)
        /\ Len(extracted[i].candidates[1].content) > 0

\* C5: when only the fallback pattern finds headings, the candidate list is
\* non-empty, there is exactly one Info "fallback_heuristics" warning and no
\* "no_headings" warning, and every candidate has confidence 0.6.
C5_Fallback ==
    \A i \in Parsed :
        FellBack(i) =>
            /\ Len(extracted[i].candidates) >= 1
            /\ Cardinality(WarningsWith(i, "fallback_heuristics")) = 1
            /\ \A k \in WarningsWith(i, "fallback_heuristics") :
                   extracted[i].warnings[k].severity = "Info"
            /\ WarningsWith(i, "no_headings") = {}
            /\ \A k \in 1..Len(extracted[i].candidates) :
                   extracted[i].candidates[k].confidence = 60

\* the fallback pattern found a heading ("CC - pain") in a note of two lines
C5_Witness ==
    \E i \in Parsed :
        /\ FellBack(i)
        /\ Len(extracted[i].lines) >= 2
        /\ \E k \in 1..Len(extracted[i].candidates) :
               extracted[i].candidates[k].name = ChiefComplaint

\* the tier the candidates of parsed note i must have, in hundredths
TierOf(i) ==
    IF Len(extracted[i].headings_found) > 0 THEN 85
    ELSE IF FellBack(i) THEN 60
    ELSE 40

\* C6: every candidate has the confidence of its detection method, 0.85
\* direct, 0.6 fallback, 0.4 catch-all, within [0,1] and strictly ordered, and
\* build_note copies it to the Section unchanged.
C6_ConfidenceTiers ==
    /\ 0 <= ConfidenceCatchAll
    /\ ConfidenceCatchAll < ConfidenceFallback
    /\ ConfidenceFallback < ConfidenceDirect
    /\ ConfidenceDirect <= 100
    /\ \A i \in Parsed :
           /\ \A k \in 1..Len(extracted[i].candidates) :
                  extracted[i].candidates[k].confidence = TierOf(i)
           /\ Len(structured[i].sections) = Len(extracted[i].candidates)
           /\ \A k \in 1..Len(extracted[i].candidates) :
                  structured[i].sections[k].confidence = extracted[i].candidates[k].confidence

\* one bundle gave a note with a direct heading and a note with a fallback one
C6_Witness ==
    \E i, j \in Parsed :
        /\ TierOf(i) = 85
        /\ TierOf(j) = 60
        /\ structured[i].sections[1].confidence = 85
        /\ structured[j].sections[1].confidence = 60

\* the position in the section order of a name, 0 if it is not in it
OrderPosition(name) ==
    LET order == section_order(config, format)
        hit == {p \in 1..Len(order) :
                   normalize_heading_key(order[p]) = normalize_heading_key(name)}
    IN  IF hit = {} THEN 0 ELSE CHOOSE p \in hit : \A q \in hit : p <= q

IsNarrative(c) == normalize_heading_key(c.name) = normalize_heading_key(Narrative)

\* C7: in the returned list the mapped candidates are grouped by the section
\* order, candidates of one section keep their source order, and every
\* "Narrative" candidate comes after every mapped candidate, the Narrative
\* candidates in source order.
C7_FinalOrdering ==
    \A i \in Parsed :
        \A a, b \in 1..Len(extracted[i].candidates) :
            LET ca == extracted[i].candidates[a]
                cb == extracted[i].candidates[b]
            IN  a < b =>
                    /\ IsNarrative(ca) => IsNarrative(cb)
                    /\ (~IsNarrative(ca) /\ ~IsNarrative(cb)) =>
                           OrderPosition(ca.name) <= OrderPosition(cb.name)
                    /\ (IsNarrative(ca) <=> IsNarrative(cb))
                           /\ OrderPosition(ca.name) = OrderPosition(cb.name)
                           => ca.start_line < cb.start_line

\* the candidates of parsed note i whose span holds line n
Covering(i, n) ==
    {k \in 1..Len(extracted[i].candidates) :
        /\ extracted[i].candidates[k].start_line <= n
        /\ n <= extracted[i].candidates[k].end_line}

\* C8: for a non-empty text there is at least one candidate, and every
\* non-blank line lies in the span of exactly one candidate.
C8_TotalCoverage ==
    \A i \in Parsed :
        Len(extracted[i].lines) > 0 =>
            /\ Len(extracted[i].candidates) >= 1
            /\ \A n \in 1..Len(extracted[i].lines) :
                   Len(Trim(extracted[i].lines[n])) > 0 => Cardinality(Covering(i, n)) = 1

\* C8 fails under the default configuration too: a line before the first
\* heading lies in no candidate.
C8_DefaultConfig == config = DefaultConfig => C8_TotalCoverage

\* C9: every returned candidate stems from a heading found in the source or
\* is the catch-all, no section without a heading appears, and there are never
\* more candidates than max(1, number of headings).
C9_NoPlaceholders ==
    \A i \in Parsed :
        /\ Len(extracted[i].candidates) <= Max(1, Len(UsedHeadings(i)))
        /\ ~NoHeadings(i) =>
               \A k \in 1..Len(extracted[i].candidates) :
                   \E h \in 1..Len(UsedHeadings(i)) :
                       /\ UsedHeadings(i)[h].line_num = extracted[i].candidates[k].start_line
                       /\ UsedHeadings(i)[h].heading = extracted[i].candidates[k].raw_heading

\* the content the h-th of the headings hs carries: its inline content, then
\* the lines after it up to the line before the next heading
ContentOfHeading(lines, hs, h) ==
    Trim(Join((IF hs[h].inline_content # None THEN <<Unwrap(hs[h].inline_content)>> ELSE <<>>)
              \o SubSeq(lines, hs[h].line_num + 1,
                        IF h < Len(hs) THEN hs[h + 1].line_num - 1 ELSE Len(lines)),
              <<LF>>))

\* the canonical name of a heading is no name of the section order
Unmapped(heading) == OrderPosition(heading.heading) = 0

\* the "unmapped_heading" warnings of parsed note i for the heading at a line
UnmappedWarningsAt(i, line_num) ==
    {k \in WarningsWith(i, "unmapped_heading") :
        extracted[i].warnings[k].line_start = line_num}

\* C10: a heading whose canonical name is not in the section order yields a
\* "Narrative" candidate with the heading's content and exactly one Info
\* "unmapped_heading" warning; a heading that maps emits no such warning.
C10_UnmappedRetained ==
    \A i \in Parsed :
        \A h \in 1..Len(UsedHeadings(i)) :
            LET heading == UsedHeadings(i)[h]
            IN  IF Unmapped(heading)
                THEN /\ \E k \in 1..Len(extracted[i].candidates) :
                            /\ extracted[i].candidates[k].name = Narrative
                            /\ extracted[i].candidates[k].raw_heading = heading.heading
                            /\ extracted[i].candidates[k].start_line = heading.line_num
                            /\ extracted[i].candidates[k].content
                                   = ContentOfHeading(extracted[i].lines, UsedHeadings(i), h)
                     /\ Cardinality(UnmappedWarningsAt(i, heading.line_num)) = 1
                     /\ \A k \in UnmappedWarningsAt(i, heading.line_num) :
                            extracted[i].warnings[k].severity = "Info"
                ELSE UnmappedWarningsAt(i, heading.line_num) = {}

\* a note with an unmapped heading that has content and a mapped heading
C10_Witness ==
    \E i \in Parsed :
        \E h, g \in 1..Len(UsedHeadings(i)) :
            /\ Unmapped(UsedHeadings(i)[h])
            /\ ~Unmapped(UsedHeadings(i)[g])
            /\ Len(ContentOfHeading(extracted[i].lines, UsedHeadings(i), h)) > 0

-----------------------------------------------------------------------------
(* Claims about the Validator.  They are stated over vissues, what          *)
(* validate_note returned for vnote, vtemplate and vstrict.                 *)

Validated == vpc = "done"

\* some alias of the group equals, by normalized key, a section name of the note
Satisfied(group) ==
    \E a \in 1..Len(group) : \E i \in 1..Len(vnote.sections) :
        normalize_heading_key(group[a]) = normalize_heading_key(vnote.sections[i].name)

\* the issues with the given code
IssuesWith(code) == {i \in 1..Len(vissues) : vissues[i].code = code}

\* the "missing_required" issues raised for a group
MissingFor(group) == {i \in IssuesWith("missing_required") : vissues[i].section = Some(group[1])}

\* C20: validate_note emits exactly one "missing_required" issue for each
\* required group without an alias among the note's section names and none
\* for a satisfied group; its severity is Error when strict and Warn otherwise.
C20_MissingRequired ==
    Validated =>
        LET groups == required_groups(vtemplate)
        IN  /\ \A g \in 1..Len(groups) :
                   IF Satisfied(groups[g]) THEN MissingFor(groups[g]) = {}
                   ELSE /\ Cardinality(MissingFor(groups[g])) = 1
                        /\ \A i \in MissingFor(groups[g]) :
                               vissues[i].severity = IF vstrict THEN "Error" ELSE "Warn"
            /\ Cardinality(IssuesWith("missing_required"))
                   = Cardinality({g \in 1..Len(groups) : ~Satisfied(groups[g])})

\* a SOAP note with only Subjective and Objective, validated strictly: two
\* "missing_required" Errors, for Assessment and for Plan
C20_Witness ==
    /\ Validated
    /\ vtemplate = "Soap"
    /\ vstrict
    /\ Len(vnote.sections) = 2
    /\ vnote.sections[1].name = Subjective
    /\ vnote.sections[2].name = Objective
    /\ Cardinality(IssuesWith("missing_required")) = 2
    /\ \A i \in IssuesWith("missing_required") :
           /\ vissues[i].severity = "Error"
           /\ vissues[i].section \in {Some(Assessment), Some(Plan)}

\* what validate_note returns for the same note and template with the other
\* value of strict
WithOtherStrict == validate_note(vnote, vtemplate, ~vstrict)

\* the two issues differ at most in severity
SameButSeverity(a, b) ==
    /\ a.code = b.code
    /\ a.message = b.message
    /\ a.section = b.section
    /\ a.span = b.span

\* issues, returned for strict, against other, returned for the other value
OnlyEscalates(issues, other, strict) ==
    /\ Len(issues) = Len(other)
    /\ \A i \in 1..Len(issues) :
           /\ SameButSeverity(issues[i], other[i])
           /\ IF issues[i].code = "missing_required"
              THEN /\ issues[i].severity = (IF strict THEN "Error" ELSE "Warn")
                   /\ other[i].severity = (IF strict THEN "Warn" ELSE "Error")
              ELSE issues[i].severity = other[i].severity
    /\ ~strict => \A i \in 1..Len(issues) : issues[i].severity # "Error"

\* C21: strict only escalates the severity of "missing_required": the issue
\* lists for strict = true and strict = false have the same length and, at
\* every position, the same code, message and section; the severities are
\* equal except for "missing_required" (Error when strict, Warn otherwise),
\* so that no issue is an Error when strict = false.
C21_StrictOnlyEscalates ==
    Validated => OnlyEscalates(vissues, WithOtherStrict, vstrict)

\* a SOAP note with one short Subjective section validated without strict:
\* three "missing_required" Warns, which are Errors when strict, and one
\* "section_too_short" Warn either way
C21_Witness ==
    /\ Validated
    /\ ~vstrict
    /\ vtemplate = "Soap"
    /\ Len(vnote.sections) = 1
    /\ vnote.sections[1].name = Subjective
    /\ Len(vissues) = 4
    /\ \A i \in 1..3 : /\ vissues[i].code = "missing_required"
                        /\ vissues[i].severity = "Warn"
                        /\ WithOtherStrict[i].severity = "Error"
    /\ vissues[4].code = "section_too_short"
    /\ vissues[4].severity = "Warn"
    /\ WithOtherStrict[4] = vissues[4]

\* the note has a section named exactly alias
HasSectionNamed(alias) == \E i \in 1..Len(vnote.sections) : vnote.sections[i].name = alias

\* C22: alias symmetry: for every required group of the template and every
\* alias of the group, a note with a section named exactly as the alias gets
\* no "missing_required" issue for the group.
C22_AliasSymmetry ==
    Validated =>
        \A g \in 1..Len(required_groups(vtemplate)) :
            \A a \in 1..Len(required_groups(vtemplate)[g]) :
                HasSectionNamed(required_groups(vtemplate)[g][a])
                    => MissingFor(required_groups(vtemplate)[g]) = {}

\* an H&P note whose only section is named "History of Present Illness", the
\* second alias of the HPI group: the six other groups are missing, HPI is not
C22_Witness ==
    /\ Validated
    /\ vtemplate = "Hp"
    /\ Len(vnote.sections) = 1
    /\ vnote.sections[1].name = required_groups("Hp")[1][2]
    /\ Len(vnote.sections[1].name) = 26
    /\ MissingFor(required_groups("Hp")[1]) = {}
    /\ Cardinality(IssuesWith("missing_required")) = 6

\* the sections of the note with the given key
SectionsKeyed(key) ==
    {i \in 1..Len(vnote.sections) : normalize_heading_key(vnote.sections[i].name) = key}

\* the keys that more than one section of the note has
DuplicatedKeys ==
    {key \in {normalize_heading_key(vnote.sections[i].name) : i \in 1..Len(vnote.sections)} :
        Cardinality(SectionsKeyed(key)) > 1}

\* the "duplicate_section" issues that reference a section with the given key
DuplicateIssuesFor(key) ==
    {i \in IssuesWith("duplicate_section") :
        normalize_heading_key(Unwrap(vissues[i].section)) = key}

\* C23: a key that more than one section has gets exactly one
\* "duplicate_section" issue, of severity Warn whatever strict is; a note
\* whose keys are all distinct gets none.
C23_OneDuplicateIssue ==
    Validated =>
        /\ \A key \in DuplicatedKeys : Cardinality(DuplicateIssuesFor(key)) = 1
        /\ \A i \in IssuesWith("duplicate_section") : vissues[i].severity = "Warn"
        /\ DuplicatedKeys = {} => IssuesWith("duplicate_section") = {}

\* what the code does: one "duplicate_section" Warn for every section whose
\* key another section has too, none for the other sections
C23_OneIssuePerSection ==
    Validated =>
        /\ \A key \in DuplicatedKeys :
               Cardinality(DuplicateIssuesFor(key)) = Cardinality(SectionsKeyed(key))
        /\ \A i \in IssuesWith("duplicate_section") :
               /\ vissues[i].severity = "Warn"
               /\ normalize_heading_key(Unwrap(vissues[i].section)) \in DuplicatedKeys

\* the "section_too_short" issues that reference the given section name
TooShortIssuesFor(name) ==
    {i \in IssuesWith("section_too_short") : vissues[i].section = Some(name)}

\* the sections of the given name whose trimmed content is empty or has
\* fewer than MIN_SECTION_LEN characters
ShortInCharacters(name) ==
    {i \in 1..Len(vnote.sections) :
        /\ vnote.sections[i].name = name
        /\ Len(Trim(vnote.sections[i].content)) < MIN_SECTION_LEN}

\* the sections of the given name whose trimmed content is empty or has
\* fewer than MIN_SECTION_LEN bytes in UTF-8
ShortInBytes(name) ==
    {i \in 1..Len(vnote.sections) :
        /\ vnote.sections[i].name = name
        /\ ByteLen(Trim(vnote.sections[i].content)) < MIN_SECTION_LEN}

\* C24: a section gets a "section_too_short" issue, of severity Warn whatever
\* strict is, if and only if its trimmed content is empty or shorter than 20
\* characters.
C24_TooShortInCharacters ==
    Validated =>
        /\ \A i \in IssuesWith("section_too_short") : vissues[i].severity = "Warn"
        /\ \A name \in NoteSectionNames \cup {vnote.sections[i].name : i \in 1..Len(vnote.sections)} :
               Cardinality(TooShortIssuesFor(name)) = Cardinality(ShortInCharacters(name))

\* what the code does: the length compared with 20 is the number of bytes
C24_TooShortInBytes ==
    Validated =>
        /\ \A i \in IssuesWith("section_too_short") : vissues[i].severity = "Warn"
        /\ \A name \in NoteSectionNames \cup {vnote.sections[i].name : i \in 1..Len(vnote.sections)} :
               Cardinality(TooShortIssuesFor(name)) = Cardinality(ShortInBytes(name))

-----------------------------------------------------------------------------
(* Claims about run_batch.  They are stated over breport and boutputs when  *)
(* run_batch has returned.                                                  *)

BatchDone == bpc = "done"

\* entry i is a path that can be read and whose output can be written
Succeeds(i) ==
    /\ is_ok(globbed[i])
    /\ ReadToString(globbed[i][2]) # None
    /\ Writable(globbed[i][2])

\* the entries that fail, in order
Failing == Ascending({i \in 1..Len(globbed) : ~Succeeds(i)})

\* the file name under which entry i is reported when it fails
ReportedAs(i) == IF is_ok(globbed[i]) THEN display(globbed[i][2]) ELSE <<"glob">>

\* C25: run_batch takes every glob entry; when it returns, ok_files +
\* failed_files = total_files = the number of entries, failures has
\* failed_files entries, one per failing entry and in their order, ok_files
\* counts the entries that succeed, and the output file of every entry that
\* succeeds exists, whatever fails before or after it.
C25_FailureIsolation ==
    BatchDone =>
        /\ bidx = Len(globbed)
        /\ breport.ok_files + breport.failed_files = breport.total_files
        /\ breport.total_files = Len(globbed)
        /\ Len(breport.failures) = breport.failed_files
        /\ Len(breport.failures) = Len(Failing)
        /\ \A k \in 1..Len(Failing) : breport.failures[k].file = ReportedAs(Failing[k])
        /\ \A i \in 1..Len(globbed) :
               Succeeds(i) => out_path(globbed[i][2]) \in DOMAIN boutputs

\* bad.txt, then a.txt, then b.txt: one file ok between two failures, a.json
\* written, failures naming bad.txt and b.txt
C25_Witness ==
    /\ BatchDone
    /\ Len(globbed) = 3
    /\ globbed[1] = Ok([stem |-> "bad", ext |-> "txt"])
    /\ globbed[2] = Ok([stem |-> "a", ext |-> "txt"])
    /\ globbed[3] = Ok([stem |-> "b", ext |-> "txt"])
    /\ breport.ok_files = 1
    /\ breport.failed_files = 2
    /\ breport.total_files = 3
    /\ breport.failures[1].file = <<"bad", ".", "txt">>
    /\ breport.failures[2].file = <<"b", ".", "txt">>
    /\ DOMAIN boutputs = {[stem |-> "a", ext |-> "json"]}

-----------------------------------------------------------------------------
(* Claims about build_note, stated over structured[i], the note parse_notes *)
(* built from extracted[i].candidates and the warnings handed to it.        *)

Built == 1..Len(structured)

\* the warnings parse_notes hands to build_note for note i
PassedIn(i) == extracted[i].warnings \o bundle_warnings

\* the candidates of note i whose trimmed content is empty, in order
EmptyCandidates(i) ==
    Ascending({k \in 1..Len(extracted[i].candidates) :
                  Trim(extracted[i].candidates[k].content) = <<>>})

\* C26: build_note keeps every candidate: one Section per candidate, in the
\* same order, with its name and confidence and its content trimmed; the
\* warnings passed in come first and in order, and after them there is
\* exactly one Info "empty_section" warning per candidate whose trimmed
\* content is empty, which is kept as a Section with empty content.
C26_EveryCandidateKept ==
    \A i \in Built :
        /\ Len(structured[i].sections) = Len(extracted[i].candidates)
        /\ \A k \in 1..Len(extracted[i].candidates) :
               /\ structured[i].sections[k].name = extracted[i].candidates[k].name
               /\ structured[i].sections[k].confidence = extracted[i].candidates[k].confidence
               /\ structured[i].sections[k].content = Trim(extracted[i].candidates[k].content)
        /\ Len(structured[i].warnings) = Len(PassedIn(i)) + Len(EmptyCandidates(i))
        /\ SubSeq(structured[i].warnings, 1, Len(PassedIn(i))) = PassedIn(i)
        /\ \A k \in 1..Len(EmptyCandidates(i)) :
               /\ structured[i].warnings[Len(PassedIn(i)) + k].code = "empty_section"
               /\ structured[i].warnings[Len(PassedIn(i)) + k].severity = "Info"
               /\ structured[i].warnings[Len(PassedIn(i)) + k].line_start
                      = extracted[i].candidates[EmptyCandidates(i)[k]].start_line

\* a note with a warning passed in, a candidate with content and a candidate
\* without: two sections, the second empty, and the "empty_section" warning
\* after the one passed in
C26_Witness ==
    \E i \in Built :
        /\ Len(PassedIn(i)) = 1
        /\ Len(extracted[i].candidates) = 2
        /\ Len(structured[i].sections) = 2
        /\ structured[i].sections[1].content # <<>>
        /\ structured[i].sections[2].content = <<>>
        /\ Len(structured[i].warnings) = 2
        /\ structured[i].warnings[1] = PassedIn(i)[1]
        /\ structured[i].warnings[2].code = "empty_section"

-----------------------------------------------------------------------------
(* Claims about the content span and the fallback, over parsed notes *)

\* the inline content of heading h, if any, and the source lines from the
\* line after the heading through the line before the next heading, or
\* through the last line for the last heading, joined by "\n"
SpanOfHeading(lines, hs, h) ==
    Join((IF hs[h].inline_content # None THEN <<Unwrap(hs[h].inline_content)>> ELSE <<>>)
         \o SubSeq(lines, hs[h].line_num + 1,
                   IF h < Len(hs) THEN hs[h + 1].line_num - 1 ELSE Len(lines)),
         <<LF>>)

\* the candidates of parsed note i that start at the given line
CandidatesAt(i, line_num) ==
    {k \in 1..Len(extracted[i].candidates) : extracted[i].candidates[k].start_line = line_num}

\* C27 as claimed: the content of the candidate of every heading is the
\* heading's inline content, if any, followed by the lines after the
\* heading up to the line before the next heading (the last line of the
\* document for the last heading), and nothing else.
C27_ContentSpan ==
    \A i \in Parsed :
        \A h \in 1..Len(UsedHeadings(i)) :
            /\ CandidatesAt(i, UsedHeadings(i)[h].line_num) # {}
            /\ \A k \in CandidatesAt(i, UsedHeadings(i)[h].line_num) :
                   extracted[i].candidates[k].content
                       = SpanOfHeading(extracted[i].lines, UsedHeadings(i), h)

\* C27 as amended: the content is that span trimmed of leading and trailing
\* whitespace, blank lines at its ends included; the candidate ends at the
\* line before the next heading.
C27_ContentSpanTrimmed ==
    \A i \in Parsed :
        \A h \in 1..Len(UsedHeadings(i)) :
            /\ CandidatesAt(i, UsedHeadings(i)[h].line_num) # {}
            /\ \A k \in CandidatesAt(i, UsedHeadings(i)[h].line_num) :
                   /\ extracted[i].candidates[k].content
                          = Trim(SpanOfHeading(extracted[i].lines, UsedHeadings(i), h))
                   /\ h < Len(UsedHeadings(i))
                          => extracted[i].candidates[k].end_line
                                 = UsedHeadings(i)[h + 1].line_num - 1

\* a note whose first heading has inline content, then a blank line, then the
\* next heading: the span ends with the blank line, the content does not
C27_Witness ==
    \E i \in Parsed :
        /\ Len(UsedHeadings(i)) = 2
        /\ UsedHeadings(i)[1].inline_content # None
        /\ UsedHeadings(i)[2].line_num = UsedHeadings(i)[1].line_num + 2
        /\ SpanOfHeading(extracted[i].lines, UsedHeadings(i), 1)
               # Trim(SpanOfHeading(extracted[i].lines, UsedHeadings(i), 1))
        /\ \E k \in CandidatesAt(i, UsedHeadings(i)[1].line_num) :
               extracted[i].candidates[k].content
                   = Trim(SpanOfHeading(extracted[i].lines, UsedHeadings(i), 1))

\* the lines of parsed note i that the fallback pattern takes for headings
\* and the strict scan does not
FallbackOnlyLines(i) ==
    {fallback_headings(extracted[i].lines, config)[k].line_num :
        k \in 1..Len(fallback_headings(extracted[i].lines, config))}
        \ {extracted[i].headings_found[k].line_num :
               k \in 1..Len(extracted[i].headings_found)}

\* C28: when the strict scan finds at least one heading the fallback does not
\* run: no candidate starts at a line that only the fallback pattern matches,
\* every candidate starts at a scanned heading, there is no
\* "fallback_heuristics" warning and every candidate has confidence 0.85.
C28_FallbackAsymmetry ==
    \A i \in Parsed :
        Len(extracted[i].headings_found) > 0 =>
            /\ \A line_num \in FallbackOnlyLines(i) : CandidatesAt(i, line_num) = {}
            /\ \A k \in 1..Len(extracted[i].candidates) :
                   /\ extracted[i].candidates[k].confidence = ConfidenceDirect
                   /\ \E h \in 1..Len(extracted[i].headings_found) :
                          extracted[i].headings_found[h].line_num
                              = extracted[i].candidates[k].start_line
            /\ WarningsWith(i, "fallback_heuristics") = {}

\* heuristics on, one scanned heading and a later line that only the
\* fallback pattern matches: the line is content of the scanned heading
C28_Witness ==
    \E i \in Parsed :
        /\ options.apply_heuristics
        /\ Len(extracted[i].headings_found) = 1
        /\ \E line_num \in FallbackOnlyLines(i) :
               /\ line_num > extracted[i].headings_found[1].line_num
               /\ \A k \in 1..Len(extracted[i].candidates) :
                      /\ extracted[i].candidates[k].start_line
                             = extracted[i].headings_found[1].line_num
                      /\ extracted[i].candidates[k].end_line >= line_num
                      /\ extracted[i].candidates[k].confidence = ConfidenceDirect

\* C29: when headings exist the list extract_sections returns is a
\* permutation of the per-heading candidates: as many candidates as headings
\* and, for each heading, exactly one candidate that starts at its line,
\* whatever section order the configuration gives.
C29_Permutation ==
    \A i \in Parsed :
        Len(UsedHeadings(i)) > 0 =>
            /\ Len(extracted[i].candidates) = Len(UsedHeadings(i))
            /\ \A h \in 1..Len(UsedHeadings(i)) :
                   Cardinality(CandidatesAt(i, UsedHeadings(i)[h].line_num)) = 1

\* C29 for the section orders that neither list "Narrative" nor repeat a
\* name, the built-in ones among them: there the permutation holds.
C29_PlainOrders ==
    (\A a, b \in 1..Len(section_order(config, format)) :
        /\ normalize_heading_key(section_order(config, format)[a])
               # normalize_heading_key(Narrative)
        /\ a # b => normalize_heading_key(section_order(config, format)[a])
                        # normalize_heading_key(section_order(config, format)[b]))
        => C29_Permutation

-----------------------------------------------------------------------------
(* Claims about the notes of split_bundle, continued *)

\* C30: in mode on or auto no line of a returned note is, trimmed, a
\* configured delimiter, and when two or more notes are returned none of
\* them is empty.
C30_NoDelimiterNoEmpty ==
    (Split /\ mode_default \in {"On", "Auto"}) =>
        /\ \A n \in 1..Len(note_texts) :
               \A l \in 1..Len(Lines(note_texts[n])) : ~IsSeparator(Lines(note_texts[n])[l])
        /\ Len(note_texts) >= 2 => \A n \in 1..Len(note_texts) : note_texts[n] # <<>>

\* C30 for the texts whose delimiter lines separate non-blank segments, at
\* least two of them: there no note holds a delimiter line and none is empty.
C30_InnerDelimiters ==
    (/\ Len(TrimmedSegments(text)) >= 2
     /\ \A k \in 1..Len(TrimmedSegments(text)) : Len(TrimmedSegments(text)[k]) > 0)
        => C30_NoDelimiterNoEmpty

====
